---- MODULE Spec2Model ----
(***************************************************************************)
(* Model of the study-help backend of crewai_backend:                      *)
(*   - agents/agent.py       study_help (composer, gateway call, error     *)
(*                           recovery, result normalization, main answer), *)
(*                           extract_whiteboard_tool_output,               *)
(*                           generate_response, websocket_audio_stream     *)
(*   - agents/example_agents.py  roster, find_agent_by_role, task creators *)
(*   - agents/tools/whiteboard_tool.py  the two whiteboard tools           *)
(*   - agent_runner.py       run_agent (modes, worker thread and the 300   *)
(*                          second timeout), _extract_answer_from_response *)
(*   - websocket/connection_manager.py  ConnectionManager, with the        *)
(*                           coroutines of broadcast and of the send       *)
(*                           methods suspended at their awaits             *)
(*                                                                         *)
(* A text is a sequence of characters.  The characters that decide the     *)
(* code's branches are kept apart: "a" is a prose character, " " is        *)
(* whitespace, "bt" is one backtick and "J" stands for one complete JSON   *)
(* object that carries a "type" key (a whiteboard payload).                *)
(* An error message is a sequence of tokens, each with a character length. *)
(***************************************************************************)
EXTENDS Integers, Sequences, FiniteSets, TLC

\* ------------------------------------------------------------------------
\* Bounds of the model
\* ------------------------------------------------------------------------

\* longest list / map / tasks_output a gateway outcome carries
MaxItems == 2

\* ------------------------------------------------------------------------
\* Python values
\* ------------------------------------------------------------------------

\* None, where a text is expected
NoneVal == <<"<None>">>

\* str(None)
StrNone == <<"N", "o", "n", "e">>

\* no agent (find_agent_by_role found nothing, crew.agents is empty)
NoAgent == "<no agent>"

\* the backtick character
Backtick == "bt"

\* whitespace characters; "NLNL" is a blank line (two newlines)
Whitespace == {" ", "NLNL"}

RECURSIVE lstrip(_)
lstrip(t) ==
    IF t # <<>> /\ Head(t) \in Whitespace THEN lstrip(Tail(t)) ELSE t

RECURSIVE rstrip(_)
rstrip(t) ==
    IF t # <<>> /\ t[Len(t)] \in Whitespace
    THEN rstrip(SubSeq(t, 1, Len(t) - 1))
    ELSE t

\* str.strip()
strip(t) == rstrip(lstrip(t))

\* str.replace(a backtick, "")
remove_backticks(t) == SelectSeq(t, LAMBDA c : c # Backtick)

\* main_answer is None or main_answer.strip() == ""
IsNoneOrBlank(t) == t = NoneVal \/ strip(t) = <<>>

\* the test the code negates to skip "empty responses or markdown code
\* blocks with no content":
\*   text and text != three backticks and text.replace(a backtick, "").strip()
HasContent(t) ==
    /\ t # <<>>
    /\ t # <<Backtick, Backtick, Backtick>>
    /\ strip(remove_backticks(t)) # <<>>

\* ------------------------------------------------------------------------
\* Agent roster (create_classroom_crew)
\* ------------------------------------------------------------------------

\* request.subject: an ordinary subject, and one whose title is itself the
\* name of a role
Subjects == {"general", "problem analyst"}

\* the subjects the agent and task creators are called with on their own:
\* those of the requests, and one whose title is the name of the professor
AllSubjects == Subjects \cup {"socratic mentor"}

\* the roles of the roster for subject "general"
Professor == "Socratic Mentor for General"
Expert == "General Problem Analyst"

\* role=f"Socratic Mentor for {subject.title()}"
create_professor_agent(subject) ==
    CASE subject = "general" -> Professor
      [] subject = "problem analyst" -> "Socratic Mentor for Problem Analyst"
      [] subject = "socratic mentor" -> "Socratic Mentor for Socratic Mentor"

\* role=f"{subject.title()} Problem Analyst"
create_subject_expert_agent(subject) ==
    CASE subject = "general" -> Expert
      [] subject = "problem analyst" -> "Problem Analyst Problem Analyst"
      [] subject = "socratic mentor" -> "Socratic Mentor Problem Analyst"

Challenger == "Critical Thinker"
Student == "Peer Student"
Connector == "Interdisciplinary Connector"

\* agents = [professor, expert, devils_advocate, peer_student, connector]
RosterOf(subject) ==
    << create_professor_agent(subject), create_subject_expert_agent(subject),
       Challenger, Student, Connector >>

\* the roster for subject "general"
Roster == RosterOf("general")

RosterSet == {Roster[i] : i \in 1..Len(Roster)}

\* every role of every roster of the model
AllRoles == UNION {{RosterOf(s)[i] : i \in 1..5} : s \in AllSubjects}

\* agent_role_map: short name -> role searched for
agent_role_map ==
    [ expert |-> "Problem Analyst",
      professor |-> "Socratic Mentor",
      challenger |-> "Critical Thinker",
      student |-> "Peer Student",
      connector |-> "Interdisciplinary Connector" ]

\* str.lower() on the preferred-role strings the model feeds in
Lower(s) ==
    CASE s = "Professor" -> "professor"
      [] s = "Peer" -> "peer"
      [] OTHER -> s

\* needle.lower() in role.lower(): the roster roles that contain the needle
RolesContaining(needle) ==
    CASE needle = "Socratic Mentor" ->
             {create_professor_agent(s) : s \in AllSubjects}
             \cup {create_subject_expert_agent("socratic mentor")}
      [] needle = "Problem Analyst" ->
             {create_subject_expert_agent(s) : s \in AllSubjects}
             \cup {create_professor_agent("problem analyst")}
      [] needle = "Critical Thinker" -> {Challenger}
      [] needle = "Peer Student" -> {Student}
      [] needle = "Interdisciplinary Connector" -> {Connector}
      [] needle = "Peer" -> {Student}
      [] needle = "e" -> AllRoles
      [] needle = "" -> AllRoles
      [] OTHER -> {}

\* find_agent_by_role(crew, role_contains): the first agent of crew.agents
\* whose role contains role_contains, case-insensitively; None if none
find_agent_by_role(agents, role_contains) ==
    LET hits == SelectSeq(agents, LAMBDA a : a \in RolesContaining(role_contains))
    IN  IF hits = <<>> THEN NoAgent ELSE Head(hits)

\* "Expert" in agent_name: true of the fallback label "Expert" only, no
\* roster role contains the word
ContainsExpert(agent_name) == agent_name = "Expert"

\* "Socratic Mentor" in (agent.role or "")
IsProfessor(agent) == agent \in RolesContaining("Socratic Mentor")

\* ------------------------------------------------------------------------
\* Requests (StudyHelpRequest) and the Task Flow Composer
\* ------------------------------------------------------------------------

\* preferred_agent_role = None
NoneStr == "<None>"

\* Python truthiness of an optional string
Truthy(s) == s # NoneStr /\ s # ""

\* preferred_agent_role values fed to the model: absent, an alias, and a
\* string that matches no role
PreferredInputs == {NoneStr, "professor", "tutor"}

\* available_agent_roles: None, or a list of roster roles
AvailInputs ==
    { [given |-> FALSE, roles |-> {}],
      [given |-> TRUE, roles |-> {}],
      [given |-> TRUE, roles |-> {Professor, Student}] }

HelpTypes == {"explanation", "discussion", "debate"}

\* visual: the verdict of should_use_whiteboard(topic, context, subject).
\* The role-named subject comes without restriction and without visuals.
Requests ==
    { r \in [ help_type : HelpTypes,
              subject : Subjects,
              preferred_agent_role : PreferredInputs,
              available_agent_roles : AvailInputs,
              visual : BOOLEAN ] :
        r.subject # "general" =>
            (~r.available_agent_roles.given /\ ~r.visual) }

\* The callable bound to the module global create_classroom_crew when
\* study_help runs: the function of agents/example_agents.py, or a
\* replacement that takes the available_agent_roles keyword.
Factories == {"example_agents", "restricting"}

\* create_classroom_crew(subject, agents_config) of example_agents.py has no
\* parameter available_agent_roles: the keyword call of study_help raises
TypeErrorDetail == <<"TypeError: create_classroom_crew() got an unexpected keyword argument 'available_agent_roles'">>

\* a roster restricted to the available roles (section 4.1 of the design)
create_classroom_crew(subject, available_agent_roles) ==
    IF available_agent_roles.given
    THEN SelectSeq(RosterOf(subject), LAMBDA r : r \in available_agent_roles.roles)
    ELSE RosterOf(subject)

\* "Normalize preferred_agent_role if it's a short name"
actual_agent_role(preferred_agent_role) ==
    IF Truthy(preferred_agent_role)
       /\ Lower(preferred_agent_role) \in DOMAIN agent_role_map
    THEN agent_role_map[Lower(preferred_agent_role)]
    ELSE preferred_agent_role

\* task.description, up to the parts that differ between tasks of a request
Description(kind, agent, visual) ==
    IF ~visual THEN <<kind, "plain">>
    ELSE IF IsProfessor(agent) THEN <<kind, "teacher">>
    ELSE <<kind, "suggest">>

\* create_explanation_task(concept, agent, include_visuals=None, ...)
create_explanation_task(agent, visual) ==
    [ agent |-> agent,
      description |-> Description("Explain the concept", agent, visual),
      tools |-> visual /\ IsProfessor(agent) ]

\* create_discussion_task(topic, agent, whiteboard_aware=None, ...)
create_discussion_task(agent, visual) ==
    [ agent |-> agent,
      description |-> Description("Participate in a discussion", agent, visual),
      tools |-> visual /\ IsProfessor(agent) ]

\* explanation mode: the agent the single task goes to
ExplanationTarget(agents, role) ==
    LET wanted == IF Truthy(role) THEN find_agent_by_role(agents, role) ELSE NoAgent
        expert == find_agent_by_role(agents, "Problem Analyst")
    IN  IF wanted # NoAgent THEN wanted
        ELSE IF expert # NoAgent THEN expert
        ELSE IF agents # <<>> THEN agents[1]
        ELSE NoAgent

\* the default branch (help_type neither explanation nor discussion)
DefaultTarget(agents) ==
    LET expert == find_agent_by_role(agents, "Problem Analyst")
    IN  IF expert # NoAgent THEN expert
        ELSE IF agents # <<>> THEN agents[1]
        ELSE NoAgent

RECURSIVE AppendNew(_, _)
\* for agent in candidates: if agent and agent not in agent_order: append
AppendNew(agent_order, candidates) ==
    IF candidates = <<>> THEN agent_order
    ELSE LET a == Head(candidates)
             seen == {agent_order[i] : i \in 1..Len(agent_order)}
         IN  AppendNew(IF a # NoAgent /\ a \notin seen
                       THEN Append(agent_order, a) ELSE agent_order,
                       Tail(candidates))

\* discussion mode: primary agent first, then the others in the fixed order
DiscussionOrder(agents, role) ==
    LET professor == find_agent_by_role(agents, "Socratic Mentor")
        expert == find_agent_by_role(agents, "Problem Analyst")
        challenger == find_agent_by_role(agents, "Critical Thinker")
        student == find_agent_by_role(agents, "Peer Student")
        connector == find_agent_by_role(agents, "Interdisciplinary Connector")
        primary == IF Truthy(role) THEN find_agent_by_role(agents, role) ELSE NoAgent
        first == IF primary # NoAgent THEN <<primary>> ELSE <<>>
    IN  AppendNew(first, <<professor, expert, challenger, student, connector>>)

\* STEP 3 of study_help: the crew and the tasks, or the exception raised.
\* crew_takes_none: whether Crew(agents=[None]) of the crewai library
\* constructs (a stub does) or fails validation.
Compose(request, factory, crew_takes_none) ==
    LET role == actual_agent_role(request.preferred_agent_role)
        agents == create_classroom_crew(request.subject, request.available_agent_roles)
        target == IF request.help_type = "explanation"
                  THEN ExplanationTarget(agents, role)
                  ELSE DefaultTarget(agents)
        order == DiscussionOrder(agents, role)
    IN  IF factory = "example_agents"
        THEN [raised |-> TRUE, detail |-> TypeErrorDetail, tasks |-> <<>>, crew |-> <<>>]
        ELSE IF request.help_type = "discussion"
        THEN [raised |-> FALSE, detail |-> <<>>,
              tasks |-> [i \in 1..Len(order) |-> create_discussion_task(order[i], request.visual)],
              crew |-> agents]
        ELSE IF target = NoAgent /\ ~crew_takes_none
        THEN [raised |-> TRUE, detail |-> <<"ValidationError: Crew agents">>,
              tasks |-> <<>>, crew |-> <<>>]
        ELSE [raised |-> FALSE, detail |-> <<>>,
              tasks |-> <<create_explanation_task(target, request.visual)>>,
              crew |-> <<target>>]

\* ------------------------------------------------------------------------
\* Responses (StudyHelpResponse)
\* ------------------------------------------------------------------------

\* whiteboard_data = None
NoWhiteboard == [payload |-> "<None>", wrapped_prompt |-> FALSE]

\* {"agent": ..., "message": ...}
Msg(agent, message) == [agent |-> agent, message |-> message]

\* agent_responses = None is has_agent_responses = FALSE
Response(success, answer, has_agent_responses, agent_responses, whiteboard_data, error) ==
    [ success |-> success,
      answer |-> answer,
      has_agent_responses |-> has_agent_responses,
      agent_responses |-> agent_responses,
      whiteboard_data |-> whiteboard_data,
      error |-> error ]

\* traceback.format_exc()
Traceback == <<"\n", "Traceback (most recent call last)">>

\* the outer handler: except Exception as e -> success=False, error=str(e)+traceback
ErrorResponse(detail) ==
    Response(FALSE, NoneVal, FALSE, <<>>, NoWhiteboard, detail \o Traceback)

\* ------------------------------------------------------------------------
\* Error Recovery Layer: the handler around crew.kickoff()
\* ------------------------------------------------------------------------

\* len() of a token of an error message
TokLen(c) ==
    CASE c = "w5" -> 5
      [] c = "w6" -> 6
      [] c = "i missed" -> 8
      [] c = "i did it wrong" -> 14
      [] c = "invalid format" -> 14
      [] c \in {"Thought:", "thought:"} -> 8
      [] c \in {"Action:", "parsing", "Parsing"} -> 7
      [] c = "Final Answer" -> 12
      [] c = "retry" -> 5
      [] c = "connection refused" -> 18
      [] c = "NLNL" -> 2
      [] OTHER -> 1

RECURSIVE TextLen(_)
\* len(text)
TextLen(t) == IF t = <<>> THEN 0 ELSE TokLen(Head(t)) + TextLen(Tail(t))

\* least index i >= from with t[i] in S, or 0
IndexFrom(t, S, from) ==
    LET hits == {i \in from..Len(t) : t[i] \in S}
    IN  IF hits = {} THEN 0 ELSE CHOOSE i \in hits : \A j \in hits : i <= j

\* "parsing" in error_str or "invalid format" in error_str or "retry" in error_str
\* with error_str = str(crew_error).lower()
IsFormatError(msg) ==
    IndexFrom(msg, {"parsing", "Parsing", "invalid format", "retry"}, 1) # 0

\* extracted_thought is kept only if len(extracted_thought) > 10
MinThoughtLen == 10

\* re.search(r'thought:\s*(.+?)(?:\n\n|final answer|action:|$)', error_msg,
\*           re.IGNORECASE | re.DOTALL).group(1), or None if there is no match
thought_match(msg) ==
    LET m == IndexFrom(msg, {"Thought:", "thought:"}, 1)
        nonws == {c \in {msg[i] : i \in 1..Len(msg)} : c \notin Whitespace}
        s == IF m = 0 THEN 0 ELSE IndexFrom(msg, nonws, m + 1)
        e == IF s = 0 THEN 0 ELSE IndexFrom(msg, {"NLNL", "Final Answer", "Action:"}, s + 1)
    IN  IF m = 0 \/ m = Len(msg) THEN NoneVal
        ELSE IF s = 0 THEN <<msg[Len(msg)]>>
        ELSE SubSeq(msg, s, IF e = 0 THEN Len(msg) ELSE e - 1)

RECURSIVE remove_did_it_wrong(_)
\* re.sub(r'i did it wrong.*?invalid format.*?', '', t, IGNORECASE | DOTALL)
remove_did_it_wrong(t) ==
    LET i == IndexFrom(t, {"i did it wrong"}, 1)
        j == IF i = 0 THEN 0 ELSE IndexFrom(t, {"invalid format"}, i + 1)
    IN  IF j = 0 THEN t
        ELSE SubSeq(t, 1, i - 1) \o remove_did_it_wrong(SubSeq(t, j + 1, Len(t)))

\* re.sub(r'i missed.*?', '', t, IGNORECASE)
remove_i_missed(t) == SelectSeq(t, LAMBDA c : c # "i missed")

\* "Clean up common error text"
clean_thought(group) == strip(remove_i_missed(remove_did_it_wrong(strip(group))))

\* extracted_answer with the length test off by one (>= instead of >)
extracted_answer_AtLeast(msg) ==
    LET group == thought_match(msg)
        cleaned == clean_thought(group)
    IN  IF group = NoneVal THEN NoneVal
        ELSE IF cleaned # <<>> /\ TextLen(cleaned) >= MinThoughtLen THEN cleaned
        ELSE NoneVal

\* extracted_answer without the clean-up of common error text
extracted_answer_Uncleaned(msg) ==
    LET group == thought_match(msg)
    IN  IF group = NoneVal THEN NoneVal
        ELSE IF strip(group) # <<>> /\ TextLen(strip(group)) > MinThoughtLen
        THEN strip(group)
        ELSE NoneVal

\* extracted_answer: the salvaged fragment, or None
extracted_answer(msg) ==
    LET group == thought_match(msg)
        cleaned == clean_thought(group)
    IN  IF group = NoneVal THEN NoneVal
        ELSE IF cleaned # <<>> /\ TextLen(cleaned) > MinThoughtLen THEN cleaned
        ELSE NoneVal

RephraseAnswer == <<"I encountered a formatting issue. Please try rephrasing your question.">>

FormatErrorLabel == <<"Format parsing error">>

\* HandleCrewError without the re-raise: every error is taken for a format error
HandleCrewError_NoReraise(msg) ==
    IF extracted_answer(msg) # NoneVal
    THEN Response(TRUE, extracted_answer(msg), TRUE,
                  <<Msg("assistant", extracted_answer(msg))>>, NoWhiteboard, NoneVal)
    ELSE Response(FALSE, RephraseAnswer, FALSE, <<>>, NoWhiteboard, FormatErrorLabel)

\* except Exception as crew_error: around crew.kickoff()
HandleCrewError(msg) ==
    IF IsFormatError(msg)
    THEN IF extracted_answer(msg) # NoneVal
         THEN Response(TRUE, extracted_answer(msg), TRUE,
                       <<Msg("assistant", extracted_answer(msg))>>, NoWhiteboard, NoneVal)
         ELSE Response(FALSE, RephraseAnswer, FALSE, <<>>, NoWhiteboard, FormatErrorLabel)
    ELSE ErrorResponse(msg)

\* the error messages the gateway raises in the model
ErrorMessages ==
    { <<"connection refused">>,
      <<"connection refused", " ", "Thought:", " ", "w6", " ", "w6">>,
      <<"parsing">>,
      <<"Parsing", " ", "Thought:", " ", "w6", " ", "w6", "NLNL", "w5">>,
      <<"retry", " ", "thought:", "w5", "w5", "Final Answer", "w6">>,
      <<"retry", " ", "Thought:", "w5", "w6">>,
      <<"invalid format", "Thought:", " ", "i missed", " ", "w6", "Action:", "w6">>,
      <<"parsing", "Thought:", "i did it wrong", " ", "invalid format", "w6", "w6">>,
      <<"parsing", "Thought:", " ", "NLNL">>,
      <<"retry", " ", "w6", " ", "Thought:">> }

\* ------------------------------------------------------------------------
\* Whiteboard Payload Extractor
\* ------------------------------------------------------------------------

\* A brace-delimited span of a text is one character of the model:
\*   "J"   an object with "type", nested at most two deep
\*         ({"type": "graph", "expression": "x^2"})
\*   "S"   an object with "specifications" or "instructions" but neither
\*         "type" nor "render_engine", nested at most two deep
\*   "D"   an object with "type", nested three deep
\*         ({"type": "graph", "specifications": {"axes": {"x": 1}}})
\*   "DS"  as "S", nested three deep
\*   "I"   an object with none of the four keys
ObjectTokens == {"J", "S", "D", "DS", "I"}

\* three backticks followed by json, and three backticks
FenceTokens == {"FJ", "F"}

\* "type" in parsed or "render_engine" in parsed
HasTypeKey(token) == token \in {"J", "D"}

\* ... or "specifications" in parsed or "instructions" in parsed
HasPayloadKey(token) == token \in {"J", "D", "S", "DS"}

\* the least element of a set of indices, or 0 when there is none
Least(S) == IF S = {} THEN 0 ELSE CHOOSE i \in S : \A j \in S : i <= j

\* least index i >= from of a character that is no whitespace, or 0
NextNonSpace(t, from) == Least({i \in from..Len(t) : t[i] \notin Whitespace})

\* position n holds the three backticks that close a fence
FenceFollows(t, n) == n # 0 /\ t[n] \in FenceTokens

\* a closing brace followed by \s* and three backticks
ClosesAt(t, k) ==
    t[k] \in ObjectTokens /\ FenceFollows(t, NextNonSpace(t, k + 1))

\* ( \{ .*? \} ) \s* three backticks  tried at index j: the index of the
\* brace that ends the lazy group, or 0 when the pattern fails there
GroupEnd(t, j) ==
    IF j = 0 THEN 0
    ELSE IF t[j] \notin ObjectTokens THEN 0
    ELSE Least({k \in j..Len(t) : ClosesAt(t, k)})

RECURSIVE FenceMatches(_, _, _)
\* the group that starts behind the fence at i and ends at k, then the
\* groups behind it; no group (k = 0) resumes the scan behind the fence
FenceGroup(t, fence, i, k) ==
    IF k = 0 THEN FenceMatches(t, fence, i + 1)
    ELSE <<SubSeq(t, NextNonSpace(t, i + 1), k)>>
         \o FenceMatches(t, fence, NextNonSpace(t, k + 1) + 1)

\* the groups found from the fence at index i on (i = 0: no fence is left)
FenceFrom(t, fence, i) ==
    IF i = 0 THEN <<>>
    ELSE FenceGroup(t, fence, i, GroupEnd(t, NextNonSpace(t, i + 1)))

\* re.findall of  fence \s* ( \{ .*? \} ) \s* three backticks  from index
\* from on: the groups, left to right, without overlap
FenceMatches(t, fence, from) == FenceFrom(t, fence, IndexFrom(t, {fence}, from))

\* what the pattern of plain objects, which allows one level of nesting,
\* finds in one brace-delimited span: the span itself, or for a deeper one
\* an inner object, which has none of the keys
PlainMatch(token) == IF token \in {"D", "DS"} THEN "I" ELSE token

\* re.findall of the pattern of plain objects
PlainMatches(t) ==
    LET spans == SelectSeq(t, LAMBDA c : c \in ObjectTokens)
    IN  [i \in 1..Len(spans) |-> <<PlainMatch(spans[i])>>]

\* "if not matches:" twice: the matches of the first pattern that has any
FirstWithMatches(json_fenced, fenced, plain) ==
    IF json_fenced # <<>> THEN json_fenced
    ELSE IF fenced # <<>> THEN fenced
    ELSE plain

\* the matches of the first pattern that has any
PatternMatches(t) ==
    FirstWithMatches(FenceMatches(t, "FJ", 1), FenceMatches(t, "F", 1),
                     PlainMatches(t))

\* a stripped match parses to a dict that looks like tool output
ParsesToToolOutput(stripped) == Len(stripped) = 1 /\ HasPayloadKey(stripped[1])

\* json.loads(match.strip()) gives a dict that looks like tool output
LooksLikeToolOutput(match) == ParsesToToolOutput(strip(match))

\* "for match in matches: ... return parsed": the first good match, or None
FirstToolOutput(good) ==
    IF good = <<>> THEN "<None>" ELSE strip(good[1])[1]

\* the whole text if it parses to an object with "type" or "render_engine",
\* else the first good match
WholeOrMatch(whole, matches) ==
    IF Len(whole) = 1 /\ HasTypeKey(whole[1]) THEN whole[1]
    ELSE FirstToolOutput(SelectSeq(matches, LooksLikeToolOutput))

\* extract_whiteboard_tool_output(text): the whole text if it parses to an
\* object with "type" or "render_engine"; else the first match of the
\* patterns that parses to an object with one of the four keys; else None
extract_whiteboard_tool_output(text) ==
    WholeOrMatch(strip(text), PatternMatches(text))

\* a scan without the test "whiteboard_data is None": a later payload
\* replaces the one found before
ScanWhiteboard_LastWins(wb, text) ==
    IF extract_whiteboard_tool_output(text) # "<None>"
    THEN extract_whiteboard_tool_output(text) ELSE wb

\* "if whiteboard_data is None: extracted = extract(...); if extracted: ..."
ScanWhiteboard(wb, text) ==
    IF wb = "<None>" THEN extract_whiteboard_tool_output(text) ELSE wb

\* ------------------------------------------------------------------------
\* Result Normalizer: STEP 5 of study_help
\* ------------------------------------------------------------------------

AttributeErrorDetail == <<"AttributeError: 'NoneType' object has no attribute 'role'">>

\* the locals agent_responses, main_answer, whiteboard_data; raised is set
\* when a step raised (the remaining steps are then skipped)
Acc0 == [ar |-> <<>>, ma |-> NoneVal, wb |-> "<None>", raised |-> FALSE]

Messages(ar) == {ar[i].message : i \in 1..Len(ar)}

\* a key of a map-shaped result, by its relation to a task description:
\* equal to it, a part of it, containing it, or unrelated to any
\* task_desc == task.description or task_desc in task.description
KeyMatches(key, task) ==
    key.desc = task.description /\ key.rel \in {"equal", "part"}

\* index of the first task the key matches, or 0
MatchingTask(key, tasks) ==
    LET hits == {i \in 1..Len(tasks) : KeyMatches(key, tasks[i])}
    IN  IF hits = {} THEN 0 ELSE CHOOSE i \in hits : \A j \in hits : i <= j

RECURSIVE ListBranch(_, _, _, _)
\* isinstance(result, list), and tasks_output when it is a list
ListBranch(acc, items, tasks, i) ==
    IF acc.raised \/ i > Len(items) THEN acc
    ELSE IF i <= Len(tasks) /\ tasks[i].agent = NoAgent
    THEN [acc EXCEPT !.raised = TRUE]
    ELSE LET agent_name == IF i <= Len(tasks) THEN tasks[i].agent ELSE "Expert"
             response_text == items[i]
         IN  ListBranch(
               [acc EXCEPT
                  !.wb = ScanWhiteboard(@, response_text),
                  !.ar = Append(@, Msg(agent_name, response_text)),
                  !.ma = IF @ = NoneVal /\ ContainsExpert(agent_name)
                         THEN response_text ELSE @],
               items, tasks, i + 1)

\* task.output of every task after the run: None where the engine attached
\* nothing to the task
TaskOutputs(result, tasks) ==
    [i \in 1..Len(tasks) |->
        IF i <= Len(result.task_outputs) THEN result.task_outputs[i] ELSE NoneVal]

\* task.intermediate_steps of every task after the run: the outputs of the
\* steps, none where the engine attached no steps
IntermediateSteps(result, tasks) ==
    [i \in 1..Len(tasks) |->
        IF "steps" \in DOMAIN result /\ i <= Len(result.steps)
        THEN result.steps[i] ELSE <<>>]

RECURSIVE ScanSteps(_, _)
\* "for step in task.intermediate_steps": the output of each step is
\* scanned, by tool name or without, until one gives a payload (break)
ScanSteps(wb, outputs) ==
    IF outputs = <<>> THEN wb
    ELSE ScanSteps(ScanWhiteboard(wb, Head(outputs)), Tail(outputs))

\* one task of the first loop of the dict branch: its output
DictTaskOutput(acc, task_output, task) ==
    IF task_output # NoneVal /\ HasContent(strip(task_output))
    THEN [acc EXCEPT
            !.wb = ScanWhiteboard(@, strip(task_output)),
            !.ar = IF strip(task_output) \in Messages(@) THEN @
                   ELSE Append(@, Msg(IF task.agent # NoAgent THEN task.agent
                                      ELSE "Assistant", strip(task_output))),
            !.ma = IF IsNoneOrBlank(@) THEN strip(task_output) ELSE @]
    ELSE acc

\* one task of the first loop of the dict branch: its intermediate steps
DictTaskSteps(acc, outputs) == [acc EXCEPT !.wb = ScanSteps(@, outputs)]

RECURSIVE DictTaskOutputs(_, _, _, _, _)
\* the first loop of the dict branch: "Also check tasks for outputs after
\* execution" (task.output, raw_output, result, final_output), and "Also
\* check for intermediate_steps"
DictTaskOutputs(acc, task_outputs, steps, tasks, i) ==
    IF i > Len(tasks) THEN acc
    ELSE DictTaskOutputs(
           DictTaskSteps(DictTaskOutput(acc, task_outputs[i], tasks[i]), steps[i]),
           task_outputs, steps, tasks, i + 1)

RECURSIVE DictItems(_, _, _, _, _)
\* the second loop of the dict branch: "Parse the result dict"
DictItems(acc, keys, items, tasks, i) ==
    IF i > Len(items) THEN acc
    ELSE LET t == MatchingTask(keys[i], tasks)
             agent_name == IF t # 0 /\ tasks[t].agent # NoAgent
                           THEN tasks[t].agent ELSE "Assistant"
             response_text == strip(items[i])
             scanned == [acc EXCEPT !.wb = ScanWhiteboard(@, response_text)]
         IN  DictItems(
               IF ~HasContent(response_text) THEN scanned
               ELSE [scanned EXCEPT
                       !.ar = IF response_text \in Messages(@) THEN @
                              ELSE Append(@, Msg(agent_name, response_text)),
                       !.ma = IF IsNoneOrBlank(@) THEN response_text ELSE @],
               keys, items, tasks, i + 1)

RECURSIVE TasksOutputDict(_, _, _, _, _)
\* hasattr(result, "tasks_output") with a dict
TasksOutputDict(acc, keys, items, tasks, i) ==
    IF acc.raised \/ i > Len(items) THEN acc
    ELSE LET t == MatchingTask(keys[i], tasks)
             agent_name == IF t # 0 THEN tasks[t].agent ELSE "Expert"
             response_text == items[i]
         IN  IF t # 0 /\ tasks[t].agent = NoAgent
             THEN [acc EXCEPT !.raised = TRUE]
             ELSE TasksOutputDict(
                    [acc EXCEPT
                       !.wb = ScanWhiteboard(@, response_text),
                       !.ar = Append(@, Msg(agent_name, response_text)),
                       !.ma = IF @ = NoneVal /\ ContainsExpert(agent_name)
                              THEN response_text ELSE @],
                    keys, items, tasks, i + 1)

\* the branch chosen by the type of the result
ShapeBranch(result, tasks) ==
    CASE result.kind = "list" -> ListBranch(Acc0, result.items, tasks, 1)
      [] result.kind = "dict" ->
           DictItems(DictTaskOutputs(Acc0, TaskOutputs(result, tasks),
                                     IntermediateSteps(result, tasks), tasks, 1),
                     result.keys, result.items, tasks, 1)
      [] result.kind = "object" /\ result.tasks_output = "dict" ->
           TasksOutputDict(Acc0, result.keys, result.items, tasks, 1)
      [] result.kind = "object" /\ result.tasks_output = "list" ->
           ListBranch(Acc0, result.items, tasks, 1)
      [] OTHER -> Acc0

\* "Check for raw attribute (sometimes CrewAI stores raw output here)"
RawStep(acc, result, tasks) ==
    IF acc.raised \/ acc.ar # <<>> \/ result.kind # "object" \/ result.raw \in {NoneVal, <<>>}
    THEN acc
    ELSE IF tasks # <<>> /\ tasks[1].agent = NoAgent
    THEN [acc EXCEPT !.raised = TRUE]
    ELSE [acc EXCEPT
            !.ar = Append(@, Msg(IF tasks # <<>> THEN tasks[1].agent ELSE "Expert",
                                 result.raw)),
            !.ma = IF @ = NoneVal THEN result.raw ELSE @]

RECURSIVE TaskOutputFallback(_, _, _, _)
\* "Check if tasks have output attributes (after execution)", entered with
\* no agent response so far
TaskOutputFallback(acc, task_outputs, tasks, i) ==
    IF i > Len(tasks) THEN acc
    ELSE LET response_text == strip(task_outputs[i])
             agent_name == IF tasks[i].agent # NoAgent THEN tasks[i].agent
                           ELSE "Unknown Agent"
         IN  TaskOutputFallback(
               IF task_outputs[i] # NoneVal /\ response_text # <<>>
               THEN [acc EXCEPT
                       !.wb = ScanWhiteboard(@, response_text),
                       !.ar = Append(@, Msg(agent_name, response_text)),
                       !.ma = IF @ = NoneVal /\ ContainsExpert(agent_name)
                              THEN response_text ELSE @]
               ELSE acc,
               task_outputs, tasks, i + 1)

TaskOutputStep(acc, result, tasks) ==
    IF acc.raised \/ acc.ar # <<>> THEN acc
    ELSE TaskOutputFallback(acc, TaskOutputs(result, tasks), tasks, 1)

RECURSIVE Join(_, _)
\* sep.join(parts)
Join(parts, sep) ==
    IF parts = <<>> THEN <<>>
    ELSE IF Len(parts) = 1 THEN parts[1]
    ELSE parts[1] \o sep \o Join(Tail(parts), sep)

\* str(result)
Str(result) ==
    CASE result.kind = "list" -> <<"[">> \o Join(result.items, <<",">>) \o <<"]">>
      [] result.kind = "dict" ->
           <<"{">> \o Join([i \in 1..Len(result.items) |->
                              <<result.keys[i].rel>> \o result.keys[i].desc
                              \o <<":">> \o result.items[i]], <<",">>) \o <<"}">>
      [] result.kind = "str" -> result.raw
      [] result.kind = "none" -> StrNone
      [] OTHER -> IF result.raw # NoneVal THEN result.raw ELSE <<"<object>">>

\* "Fallback: if result is a string or single value, treat as single
\* response", and its elif "result is not None"
StrStep(acc, result, tasks) ==
    IF acc.raised THEN acc
    ELSE IF acc.ar = <<>>
    THEN IF strip(Str(result)) = <<>> THEN acc
         ELSE IF tasks # <<>> /\ tasks[1].agent = NoAgent
         THEN [acc EXCEPT !.raised = TRUE]
         ELSE [acc EXCEPT
                 !.ar = Append(@, Msg(IF tasks # <<>> THEN tasks[1].agent ELSE "Expert",
                                      Str(result))),
                 !.ma = IF @ = NoneVal THEN Str(result) ELSE @]
    ELSE IF result.kind # "none" /\ HasContent(strip(Str(result)))
    THEN [acc EXCEPT
            !.ma = strip(Str(result)),
            !.ar = Append(@, Msg("Assistant", strip(Str(result))))]
    ELSE acc

\* "If no main answer, use first response"
FirstResponseStep(acc) ==
    IF acc.ma = NoneVal /\ acc.ar # <<>>
    THEN [acc EXCEPT !.ma = acc.ar[1].message]
    ELSE acc

\* "If still no answer, try to get from tasks' outputs"
TaskAnswerStep(acc, result, tasks) ==
    LET outs == TaskOutputs(result, tasks)
        good == {i \in 1..Len(tasks) : outs[i] # NoneVal /\ HasContent(strip(outs[i]))}
        i == CHOOSE k \in good : \A j \in good : k <= j
        output_str == strip(outs[i])
        agent_name == IF tasks[i].agent # NoAgent THEN tasks[i].agent ELSE "Assistant"
    IN  IF ~IsNoneOrBlank(acc.ma) \/ good = {} THEN acc
        ELSE [acc EXCEPT
                !.ma = output_str,
                !.ar = IF output_str \in Messages(@) THEN @
                       ELSE Append(@, Msg(agent_name, output_str))]

\* max(agent_responses, key=lambda x: len(x["message"])): the first longest
Longest(ar) ==
    LET i == CHOOSE k \in 1..Len(ar) :
                /\ \A j \in 1..Len(ar) : TextLen(ar[j].message) <= TextLen(ar[k].message)
                /\ \A j \in 1..(k - 1) : TextLen(ar[j].message) < TextLen(ar[k].message)
    IN  ar[i].message

\* "Final fallback: ... use the longest one"
LongestStep(acc) ==
    IF IsNoneOrBlank(acc.ma) /\ acc.ar # <<>>
    THEN [acc EXCEPT !.ma = Longest(acc.ar)]
    ELSE acc

PlaceholderAnswer == <<"I processed your question, but couldn't extract a clear answer. The crew executed successfully.">>

\* "Last resort: If completely empty, construct a helpful message"
PlaceholderStep(acc) ==
    IF IsNoneOrBlank(acc.ma) THEN [acc EXCEPT !.ma = PlaceholderAnswer] ELSE acc

RECURSIVE ScanAll(_, _)
ScanAll(wb, ar) ==
    IF ar = <<>> THEN wb ELSE ScanAll(ScanWhiteboard(wb, Head(ar).message), Tail(ar))

\* "Final fallback: ... check all collected responses", then the main answer
FinalWhiteboardStep(acc) ==
    [acc EXCEPT !.wb = ScanWhiteboard(ScanAll(@, acc.ar), acc.ma)]

\* STEP 5 as a whole: the locals after the last step
Normalize(result, tasks) ==
    FinalWhiteboardStep(
      PlaceholderStep(
        LongestStep(
          TaskAnswerStep(
            FirstResponseStep(
              StrStep(
                TaskOutputStep(
                  RawStep(ShapeBranch(result, tasks), result, tasks),
                  result, tasks),
                result, tasks)),
            result, tasks))))

\* the StudyHelpResponse of the normal path; a raise inside STEP 5 ends in
\* the outer handler
NormalResponse(result, tasks) ==
    LET acc == Normalize(result, tasks)
    IN  IF acc.raised THEN ErrorResponse(AttributeErrorDetail)
        ELSE Response(TRUE, acc.ma, TRUE, acc.ar,
                      IF acc.wb = "<None>" THEN NoWhiteboard
                      ELSE [payload |-> acc.wb, wrapped_prompt |-> TRUE],
                      NoneVal)

\* ------------------------------------------------------------------------
\* Execution Gateway: what crew.kickoff() returns or raises
\* ------------------------------------------------------------------------

\* the texts of the entries of a list or map: blank, prose, longer prose
Texts == { <<" ">>, <<"a">>, <<"a", "a">> }

\* the texts of a scalar result: also empty, a bare code fence, prose with
\* trailing whitespace, and prose with an embedded payload
ScalarTexts ==
    Texts \cup { <<>>, <<Backtick, Backtick, Backtick>>, <<"a", " ">>, <<"a", "J">> }

\* the outputs the engine attaches to the task objects (task.output): to
\* none, or to the first task
TaskOutputChoices == { <<>>, <<<<"a">>>> }

\* the raw attribute of a result object: absent, empty, or a text
RawChoices == { NoneVal, <<>>, <<"a">>, <<"a", "J">> }

SeqsUpTo(S, n) == UNION {[1..k -> S] : k \in 0..n}

Outcome(kind, keys, items, raw, tasks_output, task_outputs, msg) ==
    [ kind |-> kind, keys |-> keys, items |-> items, raw |-> raw,
      tasks_output |-> tasks_output, task_outputs |-> task_outputs, msg |-> msg ]

\* no kickoff happened
NoOutcome == Outcome("not run", <<>>, <<>>, NoneVal, "absent", <<>>, <<>>)

\* the keys a map-shaped result may carry for these tasks: a task's
\* description, a part of the first description, a text containing the first
\* description, a text unrelated to any description
KeysFor(tasks) ==
    {[rel |-> "equal", desc |-> tasks[i].description] : i \in 1..Len(tasks)}
    \cup (IF tasks = <<>> THEN {}
          ELSE {[rel |-> r, desc |-> tasks[1].description] : r \in {"part", "whole"}})
    \cup {[rel |-> "other", desc |-> <<>>]}

\* a Python dict has no two equal keys
KeySeqs(tasks, n) ==
    {ks \in [1..n -> KeysFor(tasks)] : \A i, j \in 1..n : i # j => ks[i] # ks[j]}

Maps(tasks) ==
    UNION {KeySeqs(tasks, n) \X [1..n -> Texts] : n \in 0..MaxItems}

Outcomes(tasks) ==
    {Outcome("raise", <<>>, <<>>, NoneVal, "absent", <<>>, m) : m \in ErrorMessages}
    \cup {Outcome("list", <<>>, items, NoneVal, "absent", outs, <<>>) :
            items \in SeqsUpTo(Texts, MaxItems), outs \in TaskOutputChoices}
    \cup {Outcome("dict", m[1], m[2], NoneVal, "absent", outs, <<>>) :
            m \in Maps(tasks), outs \in TaskOutputChoices}
    \cup {Outcome("object", <<>>, items, raw, "list", outs, <<>>) :
            items \in SeqsUpTo(Texts, MaxItems), raw \in {NoneVal, <<>>, <<"a">>},
            outs \in TaskOutputChoices}
    \cup {Outcome("object", m[1], m[2], <<"a">>, "dict", outs, <<>>) :
            m \in Maps(tasks), outs \in TaskOutputChoices}
    \cup {Outcome("object", <<>>, <<>>, raw, "absent", outs, <<>>) :
            raw \in RawChoices, outs \in TaskOutputChoices}
    \cup {Outcome("str", <<>>, <<>>, raw, "absent", outs, <<>>) :
            raw \in ScalarTexts, outs \in TaskOutputChoices}
    \cup {Outcome("none", <<>>, <<>>, NoneVal, "absent", outs, <<>>) :
            outs \in TaskOutputChoices}

\* ------------------------------------------------------------------------
\* study_help
\* ------------------------------------------------------------------------

\* the response of study_help(request), given the callable bound to
\* create_classroom_crew, the library's answer to Crew(agents=[None]) and
\* the outcome of crew.kickoff()
study_help(request, factory, crew_takes_none, outcome) ==
    LET comp == Compose(request, factory, crew_takes_none)
    IN  IF comp.raised THEN ErrorResponse(comp.detail)
        ELSE IF outcome.kind = "raise" THEN HandleCrewError(outcome.msg)
        ELSE NormalResponse(outcome, comp.tasks)

VARIABLES
    phase,            \* "received": request accepted; "returned": response sent
    request,          \* the StudyHelpRequest being served
    factory,          \* the callable bound to create_classroom_crew
    tasks,            \* the tasks composed for the request
    kickoffs,         \* calls of crew.kickoff() made for the request
    outcome,          \* what crew.kickoff() returned or raised
    response,         \* the StudyHelpResponse returned
    runner_pc,        \* where the caller of run_agent stands
    in_loop,          \* asyncio.get_running_loop() finds a running loop
    worker,           \* the thread of the ThreadPoolExecutor
    now,              \* seconds since executor.submit()
    work,             \* seconds the worker needs for study_help(req)
    run_result,       \* the "response" entry of what run_agent returns
    mode,             \* the mode run_agent is called with
    scan_text,        \* the text handed to extract_whiteboard_tool_output
    extracted,        \* what extract_whiteboard_tool_output returned
    extractor_pc,     \* where the call of the extractor stands
    tool_call,        \* the tool called and its arguments
    tool_output,      \* the payload the tool returned
    ws_pc,            \* where websocket_audio_stream stands
    ws_connected,     \* the client of /ws/audio is connected
    agent,            \* websocket_audio_stream: an agent is configured
    ws_log,           \* the messages received and sent on /ws/audio, in order
    ws_stream,        \* the chunks the TTS stream yields, and how many are sent
    gen_pc,           \* where generate_response stands
    run_agent_bound,  \* the module global run_agent is bound (its import worked)
    body,             \* the TranscriptRequest generate_response serves
    gen_result,       \* what generate_response returned
    creator_call,     \* the task creator called and its arguments
    created_task,     \* the Task the creator returned
    active_connections,  \* ConnectionManager: session id -> WebSocket
    connection_metadata, \* ConnectionManager: session id -> metadata
    broken,           \* the websockets whose sends raise
    bc,               \* the coroutine running ConnectionManager.broadcast
    snd               \* the coroutine running one of the two send methods

pipeline_vars == <<phase, request, factory, tasks, kickoffs, outcome, response>>
runner_vars == <<runner_pc, in_loop, worker, now, work, run_result, mode>>
extractor_vars == <<scan_text, extracted, extractor_pc>>

tool_vars == <<tool_call, tool_output>>

ws_vars == <<ws_pc, ws_connected, agent, ws_log, ws_stream>>

gen_vars == <<gen_pc, run_agent_bound, body, gen_result>>

task_vars == <<creator_call, created_task>>

cm_vars == <<active_connections, connection_metadata, broken, bc, snd>>

\* what study_help and run_agent leave alone
other_vars == <<extractor_vars, tool_vars, ws_vars, gen_vars, task_vars, cm_vars>>

vars == <<phase, request, factory, tasks, kickoffs, outcome, response,
          runner_pc, in_loop, worker, now, work, run_result, mode,
          scan_text, extracted, extractor_pc, tool_call, tool_output,
          ws_pc, ws_connected, agent, ws_log, ws_stream,
          gen_pc, run_agent_bound, body, gen_result,
          creator_call, created_task,
          active_connections, connection_metadata, broken, bc, snd>>

NoResponse == Response(FALSE, NoneVal, FALSE, <<>>, NoWhiteboard, NoneVal)

\* run_agent has returned nothing yet
NoRunResult == [returned |-> FALSE]

\* run_agent is not in use
RunnerIdle ==
    /\ runner_pc = "idle"
    /\ in_loop = FALSE
    /\ worker = "none"
    /\ now = 0
    /\ work = 0
    /\ run_result = NoRunResult
    /\ mode = "none"

\* the extractor is not called on its own
ExtractorIdle ==
    /\ scan_text = <<>>
    /\ extracted = "<None>"
    /\ extractor_pc = "idle"

\* no tool is called
ToolIdle ==
    /\ tool_call = [tool |-> "none"]
    /\ tool_output = [returned |-> FALSE]

\* nobody is connected to /ws/audio
WsIdle ==
    /\ ws_pc = "idle"
    /\ ws_connected = FALSE
    /\ agent = FALSE
    /\ ws_log = <<>>
    /\ ws_stream = [total |-> 0, sent |-> 0]

\* generate_response is not called
GenIdle ==
    /\ gen_pc = "idle"
    /\ run_agent_bound = TRUE
    /\ body = [transcript |-> <<>>, meeting_users |-> <<>>]
    /\ gen_result = [returned |-> FALSE]

\* no task creator is called on its own
CreatorIdle ==
    /\ creator_call = [creator |-> "none"]
    /\ created_task = [returned |-> FALSE]

\* no broadcast is running
NoBroadcast ==
    [ pc |-> "idle", di_used |-> 0, di_pos |-> 1, len |-> 0,
      session_id |-> "", websocket |-> "",
      disconnected |-> <<>>, started |-> {}, attempted |-> {}, removed |-> {} ]

\* no send is running
NoSend == [pc |-> "idle", session_id |-> "", websocket |-> ""]

\* ConnectionManager() as constructed, and nothing called on it
ManagerIdle ==
    /\ active_connections = <<>>
    /\ connection_metadata = <<>>
    /\ broken = {}
    /\ bc = NoBroadcast
    /\ snd = NoSend

\* nothing but study_help and run_agent is in use
OthersIdle == ExtractorIdle /\ ToolIdle /\ WsIdle /\ GenIdle /\ CreatorIdle /\ ManagerIdle

\* a request has arrived at POST /api/study/help
Init ==
    /\ phase = "received"
    /\ request \in Requests
    /\ factory \in Factories
    /\ tasks = <<>>
    /\ kickoffs = 0
    /\ outcome = NoOutcome
    /\ response = NoResponse
    /\ RunnerIdle
    /\ OthersIdle

\* a handler that calls crew.kickoff() again after a format error
KickoffCalls_Retry(raised, out) ==
    IF raised THEN 0
    ELSE IF out.kind = "raise" /\ IsFormatError(out.msg) THEN 2
    ELSE 1

\* the calls of crew.kickoff() one request makes: none when STEP 3 raised,
\* else the one of STEP 4, whose except branch returns or re-raises
KickoffCalls(raised, out) == IF raised THEN 0 ELSE 1

\* one call of study_help, start to return, with crew.kickoff() behaving
\* in one of the ways Results gives for the tasks
StudyHelpCallFrom(Results(_)) ==
    /\ phase = "received"
    /\ \E crew_takes_none \in BOOLEAN :
        LET comp == Compose(request, factory, crew_takes_none)
        IN  \E out \in (IF comp.raised THEN {NoOutcome} ELSE Results(comp.tasks)) :
                /\ crew_takes_none \/ (factory = "restricting" /\ comp.raised)
                /\ phase' = "returned"
                /\ tasks' = comp.tasks
                /\ kickoffs' = KickoffCalls(comp.raised, out)
                /\ outcome' = out
                /\ response' = study_help(request, factory, crew_takes_none, out)
                /\ UNCHANGED <<request, factory>>

\* one call of study_help, start to return
StudyHelpCall == StudyHelpCallFrom(Outcomes)

\* study_help called by the web framework
StudyHelp == StudyHelpCall /\ UNCHANGED <<runner_vars, other_vars>>

Next == StudyHelp

Spec == Init /\ [][Next]_vars

\* ------------------------------------------------------------------------
\* study_help on results that carry whiteboard payloads
\* ------------------------------------------------------------------------

\* texts of results with payloads: prose, a payload with a "type" key, prose
\* followed by a payload without one
PayloadTexts == { <<"a">>, <<"J">>, <<"a", "S">> }

\* the outputs attached to the tasks: to none, or to the first task
PayloadTaskOutputs == { <<>>, <<<<"a">>>>, <<<<"a", "D">>>> }

\* the intermediate steps attached to the tasks: to none, or two steps to the
\* first task
PayloadSteps == { <<>>, <<<<<<"a">>, <<"DS">>>>>> }

PayloadMaps(ts) ==
    UNION {KeySeqs(ts, n) \X [1..n -> PayloadTexts] : n \in 0..MaxItems}

\* what crew.kickoff() returns when tools have produced payloads
PayloadOutcomes(ts) ==
    {Outcome("list", <<>>, items, NoneVal, "absent", outs, <<>>) :
        items \in SeqsUpTo(PayloadTexts, MaxItems), outs \in PayloadTaskOutputs}
    \cup {[steps |-> st] @@ Outcome("dict", m[1], m[2], NoneVal, "absent", outs, <<>>) :
            m \in PayloadMaps(ts), outs \in PayloadTaskOutputs, st \in PayloadSteps}
    \cup {Outcome("object", <<>>, items, NoneVal, "list", outs, <<>>) :
            items \in SeqsUpTo(PayloadTexts, MaxItems), outs \in PayloadTaskOutputs}
    \cup {Outcome("object", m[1], m[2], <<"a">>, "dict", outs, <<>>) :
            m \in PayloadMaps(ts), outs \in PayloadTaskOutputs}
    \cup {Outcome("object", <<>>, <<>>, raw, "absent", outs, <<>>) :
            raw \in PayloadTexts, outs \in PayloadTaskOutputs}
    \cup {Outcome("str", <<>>, <<>>, raw, "absent", outs, <<>>) :
            raw \in PayloadTexts, outs \in PayloadTaskOutputs}

\* the requests of this specification: one task or the discussion
ScanRequests ==
    {r \in Requests : /\ r.help_type \in {"explanation", "discussion"}
                      /\ r.subject = "general"
                      /\ r.preferred_agent_role = NoneStr
                      /\ ~r.available_agent_roles.given
                      /\ r.visual}

InitScan ==
    /\ phase = "received"
    /\ request \in ScanRequests
    /\ factory \in Factories
    /\ tasks = <<>>
    /\ kickoffs = 0
    /\ outcome = NoOutcome
    /\ response = NoResponse
    /\ RunnerIdle
    /\ OthersIdle

StudyHelpScan ==
    StudyHelpCallFrom(PayloadOutcomes) /\ UNCHANGED <<runner_vars, other_vars>>

NextScan == StudyHelpScan

SpecScan == InitScan /\ [][NextScan]_vars

\* ------------------------------------------------------------------------
\* study_help on requests that name a preferred agent
\* ------------------------------------------------------------------------

\* preferred_agent_role: absent, empty, an alias in two spellings, a string
\* that occurs in no role, and strings that are no alias but occur in a role
PreferredRoles == {NoneStr, "", "professor", "Professor", "tutor", "Peer", "e"}

\* the requests of this specification: the full roster of subject "general"
RoleRequests ==
    [ help_type : HelpTypes,
      subject : {"general"},
      preferred_agent_role : PreferredRoles,
      available_agent_roles : {[given |-> FALSE, roles |-> {}]},
      visual : {FALSE} ]

InitRole ==
    /\ phase = "received"
    /\ request \in RoleRequests
    /\ factory \in Factories
    /\ tasks = <<>>
    /\ kickoffs = 0
    /\ outcome = NoOutcome
    /\ response = NoResponse
    /\ RunnerIdle
    /\ OthersIdle

StudyHelpRole ==
    StudyHelpCallFrom(Outcomes) /\ UNCHANGED <<runner_vars, other_vars>>

NextRole == StudyHelpRole

SpecRole == InitRole /\ [][NextRole]_vars

\* ------------------------------------------------------------------------
\* run_agent
\* ------------------------------------------------------------------------

\* future.result(timeout=300)
Timeout == 300

\* how far from the timeout the modelled instants lie
MaxOverrun == 2

\* the instants the clock takes: the submit and the seconds around the timeout
Instants == {0} \cup {Timeout + d : d \in (0 - MaxOverrun)..MaxOverrun}

NextInstant(t) == CHOOSE u \in Instants : u > t /\ \A v \in Instants : v > t => u <= v

\* req = StudyHelpRequest(..., help_type=help_type, preferred_agent_role=agent):
\* available_agent_roles is not passed on
RunRequests ==
    {r \in Requests : /\ ~r.available_agent_roles.given
                      /\ r.preferred_agent_role = NoneStr
                      /\ r.help_type = "explanation"
                      /\ r.subject = "general"}

\* json_output: the whiteboard data is not copied; error only for a failure
\* with a non-empty error
json_output(resp) ==
    [ returned |-> TRUE,
      success |-> resp.success,
      has_agent_responses |-> resp.has_agent_responses,
      agent_responses |-> resp.agent_responses,
      answer |-> resp.answer,
      error |-> IF ~resp.success /\ resp.error \notin {NoneVal, <<>>}
                THEN resp.error ELSE NoneVal ]

\* error_json of the outer handler: except Exception as e
error_json(detail) ==
    [ returned |-> TRUE,
      success |-> FALSE,
      has_agent_responses |-> FALSE,
      agent_responses |-> <<>>,
      answer |-> NoneVal,
      error |-> detail ]

\* str(e) of the TimeoutError raised by future.result(timeout=300)
TimeoutErrorDetail == <<>>

\* mode: the two the function knows, and another
Modes == {"direct", "http", "cli"}

\* run_agent has returned None
NoneReturned == [returned |-> TRUE, value |-> "None"]

\* run_agent(mode, ...) has been called
InitRun ==
    /\ phase = "received"
    /\ request \in RunRequests
    /\ factory \in Factories
    /\ tasks = <<>>
    /\ kickoffs = 0
    /\ outcome = NoOutcome
    /\ response = NoResponse
    /\ runner_pc = "called"
    /\ in_loop \in BOOLEAN
    /\ worker = "none"
    /\ now = 0
    /\ work = 0
    /\ run_result = NoRunResult
    /\ mode \in Modes
    /\ OthersIdle

\* a loop is running: executor.submit(run_in_thread) and future.result(timeout=300)
Submit ==
    /\ runner_pc = "called"
    /\ mode = "direct"
    /\ in_loop
    /\ runner_pc' = "waiting"
    /\ worker' = "running"
    /\ work' \in Instants \ {0}
    /\ now' = 0
    /\ UNCHANGED <<phase, request, factory, tasks, kickoffs, outcome, response,
                   in_loop, run_result>>
    /\ UNCHANGED <<mode, other_vars>>

\* no loop is running: resp = asyncio.run(study_help(req))
RunSync ==
    /\ runner_pc = "called"
    /\ mode = "direct"
    /\ ~in_loop
    /\ StudyHelpCall
    /\ runner_pc' = "processing"
    /\ UNCHANGED <<in_loop, worker, now, work, run_result>>
    /\ UNCHANGED <<mode, other_vars>>

\* a second passes (the clock is seen at the modelled instants); the waiting
\* caller is woken at the timeout before the clock moves on
Tick ==
    /\ worker = "running"
    /\ now < work
    /\ ~(runner_pc = "waiting" /\ now >= Timeout)
    /\ now' = NextInstant(now)
    /\ UNCHANGED <<phase, request, factory, tasks, kickoffs, outcome, response,
                   runner_pc, in_loop, worker, work, run_result>>
    /\ UNCHANGED <<mode, other_vars>>

\* run_in_thread: new_loop.run_until_complete(study_help(req)) returns
WorkerDone ==
    /\ worker = "running"
    /\ now >= work
    /\ StudyHelpCall
    /\ worker' = "finished"
    /\ UNCHANGED <<runner_pc, in_loop, now, work, run_result>>
    /\ UNCHANGED <<mode, other_vars>>

\* future.result() hands over the worker's response; leaving the with block
\* finds the worker finished
FutureResult ==
    /\ runner_pc = "waiting"
    /\ worker = "finished"
    /\ runner_pc' = "processing"
    /\ UNCHANGED <<phase, request, factory, tasks, kickoffs, outcome, response,
                   in_loop, worker, now, work, run_result>>
    /\ UNCHANGED <<mode, other_vars>>

\* future.result(timeout=300) raises TimeoutError; leaving the with block
\* calls executor.shutdown(wait=True)
TimeoutFires ==
    /\ runner_pc = "waiting"
    /\ worker = "running"
    /\ now >= Timeout
    /\ runner_pc' = "shutdown"
    /\ UNCHANGED <<phase, request, factory, tasks, kickoffs, outcome, response,
                   in_loop, worker, now, work, run_result>>
    /\ UNCHANGED <<mode, other_vars>>

\* shutdown(wait=True) has joined the worker; the TimeoutError reaches the
\* outer handler, which returns error_json
ExecutorShutdown ==
    /\ runner_pc = "shutdown"
    /\ worker = "finished"
    /\ runner_pc' = "returned"
    /\ run_result' = error_json(TimeoutErrorDetail)
    /\ UNCHANGED <<phase, request, factory, tasks, kickoffs, outcome, response,
                   in_loop, worker, now, work>>
    /\ UNCHANGED <<mode, other_vars>>

\* the response is turned into json_output and returned
ProcessResponse ==
    /\ runner_pc = "processing"
    /\ runner_pc' = "returned"
    /\ run_result' = json_output(response)
    /\ UNCHANGED <<phase, request, factory, tasks, kickoffs, outcome, response,
                   in_loop, worker, now, work>>
    /\ UNCHANGED <<mode, other_vars>>

\* direct mode: "from agents.agent import study_help, StudyHelpRequest"
\* raises ImportError (a package the module needs is missing): return
ImportFails ==
    /\ runner_pc = "called"
    /\ mode = "direct"
    /\ runner_pc' = "returned"
    /\ run_result' = NoneReturned
    /\ UNCHANGED <<pipeline_vars, in_loop, worker, now, work, mode, other_vars>>

\* http mode: requests.post reaches the endpoint, which runs study_help
HttpPost ==
    /\ runner_pc = "called"
    /\ mode = "http"
    /\ StudyHelpCall
    /\ runner_pc' = "processing"
    /\ UNCHANGED <<in_loop, worker, now, work, run_result, mode, other_vars>>

\* http mode: requests.post or raise_for_status raises; except returns
\* error_json
HttpFails ==
    /\ runner_pc = "called"
    /\ mode = "http"
    /\ runner_pc' = "returned"
    /\ run_result' = error_json(<<"ConnectionError">>)
    /\ UNCHANGED <<pipeline_vars, in_loop, worker, now, work, mode, other_vars>>

\* neither mode: return None
InvalidMode ==
    /\ runner_pc = "called"
    /\ mode \notin {"direct", "http"}
    /\ runner_pc' = "returned"
    /\ run_result' = NoneReturned
    /\ UNCHANGED <<pipeline_vars, in_loop, worker, now, work, mode, other_vars>>

NextRun ==
    \/ ImportFails
    \/ HttpPost
    \/ HttpFails
    \/ InvalidMode
    \/ Submit
    \/ RunSync
    \/ Tick
    \/ WorkerDone
    \/ FutureResult
    \/ TimeoutFires
    \/ ExecutorShutdown
    \/ ProcessResponse

SpecRun == InitRun /\ [][NextRun]_vars

\* ------------------------------------------------------------------------
\* extract_whiteboard_tool_output, called on its own
\* ------------------------------------------------------------------------

\* the longest text handed to the extractor
MaxTextLen == 4

\* prose, whitespace, the fences and the brace-delimited spans
ExtractorAlphabet == {"a", " "} \cup FenceTokens \cup ObjectTokens

\* no request is being served
PipelineIdle ==
    /\ phase = "idle"
    /\ request = [ help_type |-> "explanation", subject |-> "general",
                   preferred_agent_role |-> NoneStr,
                   available_agent_roles |-> [given |-> FALSE, roles |-> {}],
                   visual |-> FALSE ]
    /\ factory = "example_agents"
    /\ tasks = <<>>
    /\ kickoffs = 0
    /\ outcome = NoOutcome
    /\ response = NoResponse

\* extract_whiteboard_tool_output(text) has been called
InitExtract ==
    /\ PipelineIdle
    /\ RunnerIdle
    /\ scan_text \in SeqsUpTo(ExtractorAlphabet, MaxTextLen)
    /\ extracted = "<None>"
    /\ extractor_pc = "called"
    /\ ToolIdle
    /\ WsIdle
    /\ GenIdle
    /\ CreatorIdle
    /\ ManagerIdle

\* the call returns
Extract ==
    /\ extractor_pc = "called"
    /\ extracted' = extract_whiteboard_tool_output(scan_text)
    /\ extractor_pc' = "returned"
    /\ UNCHANGED <<scan_text, pipeline_vars, runner_vars, tool_vars, ws_vars, gen_vars, task_vars, cm_vars>>

NextExtract == Extract

SpecExtract == InitExtract /\ [][NextExtract]_vars

\* ------------------------------------------------------------------------
\* The whiteboard tools (agents/tools/whiteboard_tool.py)
\* ------------------------------------------------------------------------

\* a key a JSON object does not have
Absent == "<absent>"

\* the booleans of Python and JSON
PyTrue == "<True>"
PyFalse == "<False>"

\* a plain string
Plain(str) == [kind |-> "str", str |-> str]

\* None where a string or an object may stand
Null == [kind |-> "null"]

\* the JSON objects a caller may pass as one string: each key absent, null
\* or set; desmos set to a boolean or to a string
JsonArguments ==
    [ kind : {"json"},
      topic : {Absent, NoneStr, "t"},
      content_type : {Absent, NoneStr, "graph", "equation", "diagram"},
      context : {Absent, "c"},
      desmos : {Absent, PyTrue, PyFalse, "true", "no"} ]

\* a string argument: a plain expression, a string that starts with a brace
\* but is no JSON, or a JSON object
StringArguments == {Plain("t"), Plain("{")} \cup JsonArguments

\* dict.get(key, default)
Get(data, key, default) == IF data[key] = Absent THEN default ELSE data[key]

\* parsed.get("topic", topic): a string or null of the object, else the
\* default
GetTopic(data, default) ==
    IF data.topic = Absent THEN default
    ELSE IF data.topic = NoneStr THEN Null
    ELSE Plain(data.topic)

\* bool(value)
Bool(value) == value \notin {PyFalse, NoneStr, ""}

\* the desmos flag WhiteboardVisualTool._run reads out of a parsed topic
ParsedDesmos(dv) ==
    IF dv \in {PyTrue, PyFalse, NoneStr}
    THEN (IF Bool(dv) THEN PyTrue ELSE PyFalse)
    ELSE IF dv \in {"true", "1", "yes", "y"} THEN PyTrue ELSE PyFalse

\* str(topic)
StrTopic(topic) ==
    CASE topic.kind = "str" -> topic.str
      [] topic.kind = "null" -> "None"
      [] topic.kind = "json" -> "{json}"

\* the dict built for the arguments as they stand after the defensive parsing
visualization_spec(topic, content_type, context, desmos) ==
    LET to_desmos == Bool(desmos) /\ content_type \in {"graph", "equation"}
    IN  [ type |-> content_type,
          specifications |-> TRUE,
          instructions |-> TRUE,
          render_engine |-> IF to_desmos THEN "desmos" ELSE "whiteboard",
          expression |-> IF to_desmos THEN StrTopic(topic) ELSE NoneStr,
          desmos |-> to_desmos ]

\* WhiteboardVisualTool._run, with the expression left out
WhiteboardVisualTool_run_NoExpression(topic, content_type, context, desmos) ==
    [ visualization_spec(topic, content_type, context, desmos)
        EXCEPT !.expression = NoneStr ]

\* WhiteboardVisualTool._run(topic, content_type, context, desmos)
WhiteboardVisualTool_run(topic, content_type, context, desmos) ==
    IF topic.kind = "json"
    THEN visualization_spec(
             GetTopic(topic, topic),
             Get(topic, "content_type", content_type),
             Get(topic, "context", context),
             IF topic.desmos = Absent THEN desmos ELSE ParsedDesmos(topic.desmos))
    ELSE visualization_spec(topic, content_type, context, desmos)

\* WhiteboardVisualToolFlexible._run(payload)
WhiteboardVisualToolFlexible_run(tool_payload) ==
    IF tool_payload.kind = "json"
    THEN WhiteboardVisualTool_run(
             GetTopic(tool_payload, Plain("")),
             Get(tool_payload, "content_type", "graph"),
             Get(tool_payload, "context", ""),
             Get(tool_payload, "desmos", PyFalse))
    ELSE WhiteboardVisualTool_run(tool_payload, "graph", "", PyTrue)

\* the calls an agent may make
ToolCalls ==
    [ tool : {"generate_whiteboard_visual"},
      topic : StringArguments,
      content_type : {"graph", "equation", "diagram", "concept_map",
                      "step_by_step", "sketch"},
      context : {"", "c"},
      desmos : {PyTrue, PyFalse} ]
    \cup [ tool : {"generate_whiteboard_visual_flex"}, payload : StringArguments ]

\* a tool has been called
InitTool ==
    /\ PipelineIdle
    /\ RunnerIdle
    /\ ExtractorIdle
    /\ tool_call \in ToolCalls
    /\ tool_output = [returned |-> FALSE]
    /\ WsIdle
    /\ GenIdle
    /\ CreatorIdle
    /\ ManagerIdle

\* generate_whiteboard_visual returns its payload
RunVisualTool ==
    /\ tool_call.tool = "generate_whiteboard_visual"
    /\ ~tool_output.returned
    /\ tool_output' =
           [ returned |-> TRUE,
             spec |-> WhiteboardVisualTool_run(tool_call.topic, tool_call.content_type,
                                               tool_call.context, tool_call.desmos) ]
    /\ UNCHANGED <<tool_call, pipeline_vars, runner_vars, extractor_vars, ws_vars, gen_vars, task_vars, cm_vars>>

\* generate_whiteboard_visual_flex returns its payload
RunFlexibleTool ==
    /\ tool_call.tool = "generate_whiteboard_visual_flex"
    /\ ~tool_output.returned
    /\ tool_output' =
           [ returned |-> TRUE,
             spec |-> WhiteboardVisualToolFlexible_run(tool_call.payload) ]
    /\ UNCHANGED <<tool_call, pipeline_vars, runner_vars, extractor_vars, ws_vars, gen_vars, task_vars, cm_vars>>

NextTool == RunVisualTool \/ RunFlexibleTool

SpecTool == InitTool /\ [][NextTool]_vars

\* ------------------------------------------------------------------------
\* create_explanation_task and create_discussion_task, called on their own
\* ------------------------------------------------------------------------

\* include_visuals / whiteboard_aware: Optional[bool]
OptionalBools == {"None", "True", "False"}

\* the calls of the two creators: each for an agent of the roster of a
\* subject; judged is what should_use_whiteboard(topic, context, subject)
\* returns for the topic
CreatorCalls ==
    [ creator : {"create_explanation_task", "create_discussion_task"},
      subject : AllSubjects,
      position : 1..5,
      whiteboard_aware : OptionalBools,
      judged : BOOLEAN ]

\* if include_visuals is None: include_visuals = should_use_whiteboard(...)
include_visuals(call) ==
    IF call.whiteboard_aware = "None" THEN call.judged
    ELSE call.whiteboard_aware = "True"

\* the agent the task is created for
CallAgent(call) == RosterOf(call.subject)[call.position]

InitTask ==
    /\ PipelineIdle
    /\ RunnerIdle
    /\ ExtractorIdle
    /\ ToolIdle
    /\ WsIdle
    /\ GenIdle
    /\ ManagerIdle
    /\ creator_call \in CreatorCalls
    /\ created_task = [returned |-> FALSE]

task_frame == <<creator_call, pipeline_vars, runner_vars, extractor_vars,
                tool_vars, ws_vars, gen_vars, cm_vars>>

CreateExplanationTask ==
    /\ creator_call.creator = "create_explanation_task"
    /\ ~created_task.returned
    /\ created_task' =
           [ returned |-> TRUE,
             task |-> create_explanation_task(CallAgent(creator_call),
                                              include_visuals(creator_call)) ]
    /\ UNCHANGED task_frame

CreateDiscussionTask ==
    /\ creator_call.creator = "create_discussion_task"
    /\ ~created_task.returned
    /\ created_task' =
           [ returned |-> TRUE,
             task |-> create_discussion_task(CallAgent(creator_call),
                                             include_visuals(creator_call)) ]
    /\ UNCHANGED task_frame

NextTask == CreateExplanationTask \/ CreateDiscussionTask

SpecTask == InitTask /\ [][NextTask]_vars

\* ------------------------------------------------------------------------
\* websocket_audio_stream: the endpoint /ws/audio
\* ------------------------------------------------------------------------

\* the messages a client sends on one connection
MaxMessages == 3

\* the chunks one TTS stream yields
MaxChunks == 2

\* a message received, a message sent
In(type) == [dir |-> "in", type |-> type]
Out(type) == [dir |-> "out", type |-> type]

\* websocket.send_bytes(chunk) of the i-th chunk
Chunk(i) == [dir |-> "out", type |-> "chunk", index |-> i]

\* the messages received so far
Received == SelectSeq(ws_log, LAMBDA m : m.dir = "in")

\* websocket_audio_stream has been called for a new connection
InitWs ==
    /\ PipelineIdle
    /\ RunnerIdle
    /\ ExtractorIdle
    /\ ToolIdle
    /\ GenIdle
    /\ CreatorIdle
    /\ ManagerIdle
    /\ ws_pc = "connecting"
    /\ ws_connected = TRUE
    /\ agent = FALSE
    /\ ws_log = <<>>
    /\ ws_stream = [total |-> 0, sent |-> 0]

ws_frame == <<pipeline_vars, runner_vars, extractor_vars, tool_vars, gen_vars, task_vars, cm_vars>>

\* websocket.accept() and the connected message
WsAccept ==
    /\ ws_pc = "connecting"
    /\ ws_log' = <<Out("connected")>>
    /\ ws_pc' = "receiving"
    /\ UNCHANGED <<ws_connected, agent, ws_stream, ws_frame>>

\* the loop is at websocket.receive_text() and the client sends one more
Receiving == ws_pc = "receiving" /\ Len(Received) < MaxMessages

\* a config message: Agent(...) is built, or raises (agent_config is no
\* object, the model is refused) and the handler ends with an error message
WsConfig ==
    /\ Receiving
    /\ \E built \in BOOLEAN :
          /\ ws_log' = ws_log \o <<In("config"),
                                    Out(IF built THEN "config_received" ELSE "error")>>
          /\ agent' = (agent \/ built)
          /\ ws_pc' = IF built THEN "receiving" ELSE "closed"
    /\ UNCHANGED <<ws_connected, ws_stream, ws_frame>>

\* what is sent for a text once an agent is configured, up to the start of
\* the audio, with the acknowledgement left out
TextReply_NoAck(raised) ==
    IF raised THEN <<Out("error")>>
    ELSE <<Out("response_text"), Out("audio_start")>>

\* what is sent for a text once an agent is configured, up to the start of
\* the audio: agent.execute_task(task) returns, or raises
TextReply(raised) ==
    IF raised THEN <<Out("text_received"), Out("error")>>
    ELSE <<Out("text_received"), Out("response_text"), Out("audio_start")>>

\* a refusal that acknowledges the text first
NotConfiguredReply_Ack == <<Out("text_received"), Out("error")>>

\* what is sent for a text while no agent is configured: the error
\* "Agent not configured. Send config message first.", then continue
NotConfiguredReply == <<Out("error")>>

\* a text message: refused while no agent is configured; else acknowledged,
\* answered and the audio started, or ended by an error
WsText ==
    /\ Receiving
    /\ \E raised \in BOOLEAN, n \in 0..MaxChunks :
          IF ~agent
          THEN /\ ws_log' = ws_log \o <<In("text")>> \o NotConfiguredReply
               /\ UNCHANGED <<ws_pc, ws_stream>>
          ELSE /\ ws_log' = ws_log \o <<In("text")>> \o TextReply(raised)
               /\ ws_pc' = IF raised THEN "closed" ELSE "streaming"
               /\ ws_stream' = [total |-> n, sent |-> 0]
    /\ UNCHANGED <<ws_connected, agent, ws_frame>>

\* for chunk in text_to_speech_stream(...): websocket.send_bytes(chunk)
WsChunk ==
    /\ ws_pc = "streaming"
    /\ ws_stream.sent < ws_stream.total
    /\ ws_log' = Append(ws_log, Chunk(ws_stream.sent + 1))
    /\ ws_stream' = [ws_stream EXCEPT !.sent = @ + 1]
    /\ UNCHANGED <<ws_pc, ws_connected, agent, ws_frame>>

\* the stream is exhausted (text_to_speech_stream ends on its own errors)
WsAudioEnd ==
    /\ ws_pc = "streaming"
    /\ ws_stream.sent = ws_stream.total
    /\ ws_log' = Append(ws_log, Out("audio_end"))
    /\ ws_pc' = "receiving"
    /\ UNCHANGED <<ws_connected, agent, ws_stream, ws_frame>>

\* a message of another type: no branch of the loop answers it
WsOther ==
    /\ Receiving
    /\ ws_log' = Append(ws_log, In("other"))
    /\ UNCHANGED <<ws_pc, ws_connected, agent, ws_stream, ws_frame>>

\* a message that is no JSON object: json.loads or data.get raises
WsMalformed ==
    /\ Receiving
    /\ ws_log' = ws_log \o <<In("malformed"), Out("error")>>
    /\ ws_pc' = "closed"
    /\ UNCHANGED <<ws_connected, agent, ws_stream, ws_frame>>

\* the client goes away: the pending receive or the next send raises, and
\* so does the sending of the error message
WsDisconnect ==
    /\ ws_pc \in {"receiving", "streaming"}
    /\ ws_connected
    /\ ws_connected' = FALSE
    /\ ws_pc' = "closed"
    /\ UNCHANGED <<agent, ws_log, ws_stream, ws_frame>>

NextWs ==
    \/ WsAccept
    \/ WsConfig
    \/ WsText
    \/ WsChunk
    \/ WsAudioEnd
    \/ WsOther
    \/ WsMalformed
    \/ WsDisconnect

SpecWs == InitWs /\ [][NextWs]_vars

\* ------------------------------------------------------------------------
\* generate_response (POST /api/generate-response) and
\* _extract_answer_from_response
\* ------------------------------------------------------------------------

\* AGENT_USER_MAPPING reversed: the users that stand for an agent
USER_AGENT_MAPPING ==
    [ Thomas |-> "professor", Tara |-> "subject_expert",
      Ethan |-> "devils_advocate", Harrish |-> "peer_student" ]

\* "for user in meeting_users: if user in USER_AGENT_MAPPING: ...append"
available_agent_roles(meeting_users) ==
    SelectSeq(meeting_users, LAMBDA user : user \in DOMAIN USER_AGENT_MAPPING)

\* the fixed texts generate_response answers with
NoUsersText == <<"No one is in the meeting. Please add users to the meeting first.">>
NoAgentsText == <<"No agents are available in this meeting. Please add users to activate agents.">>
ProcessingText == <<"I'm processing your question. Please wait...">>

\* f"Received: {user_message}"
ReceivedText(user_message) == <<"Received: ">> \o user_message

\* the transcripts and the meetings fed to the model: nobody, a user without
\* an agent, one agent's user, two agents' users
Transcripts == {<<"q">>}
Meetings == {<<>>, <<"Zed">>, <<"Thomas">>, <<"Thomas", "Harrish">>}

\* generate_response(body) has been called
InitGen ==
    /\ phase = "idle"
    /\ request = [ help_type |-> "explanation", subject |-> "general",
                   preferred_agent_role |-> NoneStr,
                   available_agent_roles |-> [given |-> FALSE, roles |-> {}],
                   visual |-> FALSE ]
    /\ factory \in Factories
    /\ tasks = <<>>
    /\ kickoffs = 0
    /\ outcome = NoOutcome
    /\ response = NoResponse
    /\ RunnerIdle
    /\ ExtractorIdle
    /\ ToolIdle
    /\ WsIdle
    /\ CreatorIdle
    /\ ManagerIdle
    /\ gen_pc = "called"
    /\ run_agent_bound \in BOOLEAN
    /\ body \in [transcript : Transcripts, meeting_users : Meetings]
    /\ gen_result = [returned |-> FALSE]

\* the dict generate_response returns
GenResponse(status, response_text) ==
    [returned |-> TRUE, kind |-> "dict", status |-> status,
     response_text |-> response_text]

\* "if not meeting_users" and "if not available_agent_roles": the two early
\* returns
GenRefuse ==
    /\ gen_pc = "called"
    /\ available_agent_roles(body.meeting_users) = <<>>
    /\ gen_pc' = "returned"
    /\ gen_result' = GenResponse("success",
                        IF body.meeting_users = <<>> THEN NoUsersText
                        ELSE NoAgentsText)
    /\ UNCHANGED <<run_agent_bound, body>>
    /\ UNCHANGED <<pipeline_vars, runner_vars, extractor_vars, tool_vars, ws_vars, task_vars, cm_vars>>

\* "else:" of "if run_agent:": the fallback when agent_runner is not there
GenWithoutRunner ==
    /\ gen_pc = "called"
    /\ available_agent_roles(body.meeting_users) # <<>>
    /\ ~run_agent_bound
    /\ gen_pc' = "returned"
    /\ gen_result' = GenResponse("success", ReceivedText(body.transcript))
    /\ UNCHANGED <<run_agent_bound, body>>
    /\ UNCHANGED <<pipeline_vars, runner_vars, extractor_vars, tool_vars, ws_vars, task_vars, cm_vars>>

\* help_type = "discussion" if num_available_agents > 1 else "explanation"
gen_help_type(meeting_users) ==
    IF Len(available_agent_roles(meeting_users)) > 1 THEN "discussion"
    ELSE "explanation"

\* result = run_agent(mode="direct", topic=user_message, subject="general",
\* help_type=help_type, agent=None, extra=extra_context), called from the
\* running loop of the web framework; run_agent builds the StudyHelpRequest
\* without available_agent_roles, and should_use_whiteboard gives its verdict
GenRunAgent ==
    /\ gen_pc = "called"
    /\ available_agent_roles(body.meeting_users) # <<>>
    /\ run_agent_bound
    /\ gen_pc' = "running"
    /\ phase' = "received"
    /\ \E visual \in BOOLEAN :
        request' = [ help_type |-> gen_help_type(body.meeting_users),
                     subject |-> "general",
                     preferred_agent_role |-> NoneStr,
                     available_agent_roles |-> [given |-> FALSE, roles |-> {}],
                     visual |-> visual ]
    /\ runner_pc' = "called"
    /\ mode' = "direct"
    /\ in_loop' = TRUE
    /\ UNCHANGED <<factory, tasks, kickoffs, outcome, response>>
    /\ UNCHANGED <<worker, now, work, run_result>>
    /\ UNCHANGED <<run_agent_bound, body, gen_result>>
    /\ UNCHANGED <<extractor_vars, tool_vars, ws_vars, task_vars, cm_vars>>

\* the "response" entry run_agent returns: json_output or error_json with the
\* entries copied from the arguments of run_agent, in the order of the dict
resp_dict(topic, subject, help_type, run_mode, result) ==
    [ topic |-> topic, subject |-> <<subject>>, help_type |-> <<help_type>>,
      mode |-> <<run_mode>>, success |-> result.success,
      has_agent_responses |-> result.has_agent_responses,
      agent_responses |-> result.agent_responses,
      answer |-> result.answer, error |-> result.error ]

\* isinstance(v, str) and v.strip()
IsNonBlankStr(v) == v # NoneVal /\ strip(v) # <<>>

\* "for key in (agent_responses, responses, ...)": of these the dict has
\* agent_responses only; the message of its first entry, if that is a
\* non-blank string
FirstContainerMessage(d) ==
    IF /\ d.has_agent_responses
       /\ d.agent_responses # <<>>
       /\ IsNonBlankStr(d.agent_responses[1].message)
    THEN d.agent_responses[1].message
    ELSE NoneVal

\* the top-level values of the dict that may be strings, in the order of
\* its keys
TopLevelStrings(d) ==
    <<d.topic, d.subject, d.help_type, d.mode, d.answer, d.error>>

\* "for k, v in resp_dict.items(): if isinstance(v, str) and v.strip():
\* return v": the first, or None
FirstNonBlank(values) ==
    IF SelectSeq(values, IsNonBlankStr) = <<>> THEN NoneVal
    ELSE SelectSeq(values, IsNonBlankStr)[1]

\* _extract_answer_from_response(resp_dict)
_extract_answer_from_response(d) ==
    IF IsNonBlankStr(d.answer) THEN d.answer
    ELSE IF FirstContainerMessage(d) # NoneVal THEN FirstContainerMessage(d)
    ELSE FirstNonBlank(TopLevelStrings(d))

\* Python's "x or y" on optional strings
Or(x, y) == IF x # NoneVal /\ x # <<>> THEN x ELSE y

\* "not response_text or response_text.strip() == ''"
NoText(t) == t = NoneVal \/ strip(t) = <<>>

\* the fallbacks behind the extraction function: answer (the dict has no
\* response_text, final_output or output), then the message of the first
\* agent response
FallbackText(d, t) ==
    IF ~NoText(t) THEN t
    ELSE IF ~NoText(Or(d.answer, NoneVal)) THEN Or(d.answer, NoneVal)
    ELSE IF d.has_agent_responses /\ d.agent_responses # <<>>
    THEN Or(d.agent_responses[1].message, NoneVal)
    ELSE Or(d.answer, NoneVal)

\* the discussion mode keeps 100 words of the text
MaxWords == 100

\* " ".join(words[:100]) + "..." for a text of more than 100 words
Truncated(help_type, t) ==
    IF help_type = "discussion" /\ t # NoneVal /\ Len(t) > MaxWords
    THEN SubSeq(t, 1, MaxWords) \o <<"...">>
    ELSE t

\* "Ensure we have a response text"
EnsureText(t) == IF NoText(t) THEN ProcessingText ELSE t

\* response_text of generate_response for the response entry d
response_text(d, help_type) ==
    EnsureText(Truncated(help_type,
        FallbackText(d, _extract_answer_from_response(d))))

\* run_agent has returned: "if result and result.get('response')" builds the
\* answer; a result of None falls through the try block and generate_response
\* returns None
GenReturn ==
    /\ gen_pc = "running"
    /\ runner_pc = "returned"
    /\ gen_pc' = "returned"
    /\ gen_result' =
        IF run_result = NoneReturned
        THEN [returned |-> TRUE, kind |-> "None"]
        ELSE GenResponse("success",
                response_text(resp_dict(body.transcript, request.subject,
                                        request.help_type, mode, run_result),
                              request.help_type))
    /\ UNCHANGED <<run_agent_bound, body>>
    /\ UNCHANGED <<pipeline_vars, runner_vars, extractor_vars, tool_vars, ws_vars, task_vars, cm_vars>>

NextGen ==
    \/ GenRefuse
    \/ GenWithoutRunner
    \/ GenRunAgent
    \/ ImportFails
    \/ Submit
    \/ Tick
    \/ WorkerDone
    \/ FutureResult
    \/ TimeoutFires
    \/ ExecutorShutdown
    \/ ProcessResponse
    \/ GenReturn

SpecGen == InitGen /\ [][NextGen]_vars

\* ------------------------------------------------------------------------
\* ConnectionManager (websocket/connection_manager.py)
\* ------------------------------------------------------------------------

\* the session id a caller passes, and the one str(uuid.uuid4()) makes up
Sessions == {"s1"}
GeneratedId == "uuid4"
SessionIds == Sessions \cup {GeneratedId}

\* the WebSocket objects
WebSockets == {"w1", "w2"}

\* the entries, deleted ones included, a dict takes before it is rebuilt
MaxEntries == 3

\* A dict is the sequence of its entries in insertion order. del leaves a
\* dummy entry behind, an assignment to a present key keeps its entry, and
\* an assignment to a new key appends one.
Dummy == [key |-> "", value |-> "<dummy>"]

LiveEntries(d) == {i \in 1..Len(d) : d[i] # Dummy}

Keys(d) == {d[i].key : i \in LiveEntries(d)}

EntryOf(d, k) == CHOOSE i \in LiveEntries(d) : d[i].key = k

\* d[k]
GetItem(d, k) == d[EntryOf(d, k)].value

\* d[k] = v
SetItem(d, k, v) ==
    IF k \in Keys(d) THEN [d EXCEPT ![EntryOf(d, k)].value = v]
    ELSE Append(d, [key |-> k, value |-> v])

\* del d[k]
DelItem(d, k) == [d EXCEPT ![EntryOf(d, k)] = Dummy]

\* the two dicts of a ConnectionManager
Manager(ac, md) == [active_connections |-> ac, connection_metadata |-> md]

\* a disconnect that forgets the metadata
disconnect_ActiveOnly(ac, md, session_id) ==
    Manager(IF session_id \in Keys(ac) THEN DelItem(ac, session_id) ELSE ac, md)

\* disconnect(session_id)
disconnect(ac, md, session_id) ==
    Manager(IF session_id \in Keys(ac) THEN DelItem(ac, session_id) ELSE ac,
            IF session_id \in Keys(md) THEN DelItem(md, session_id) ELSE md)

cm_frame == <<pipeline_vars, runner_vars, extractor_vars, tool_vars, ws_vars,
              gen_vars, task_vars>>

\* connect(websocket, session_id): websocket.accept() has returned
Connect ==
    \E session_id \in Sessions \cup {NoneStr}, websocket \in WebSockets \ broken :
        LET sid == IF Truthy(session_id) THEN session_id ELSE GeneratedId
        IN  /\ ~Truthy(session_id) => GeneratedId \notin Keys(active_connections)
            /\ sid \in Keys(active_connections)
                \/ Len(active_connections) < MaxEntries
            /\ active_connections' = SetItem(active_connections, sid, websocket)
            /\ connection_metadata' = SetItem(connection_metadata, sid, "connected_at")
            /\ UNCHANGED <<broken, bc, snd, cm_frame>>

\* disconnect(session_id), called by a websocket handler
Disconnect ==
    \E session_id \in SessionIds :
        LET m == disconnect(active_connections, connection_metadata, session_id)
        IN  /\ active_connections' = m.active_connections
            /\ connection_metadata' = m.connection_metadata
            /\ UNCHANGED <<broken, bc, snd, cm_frame>>

\* the peer of a websocket goes away: sends on it raise from now on
SocketBreaks ==
    \E websocket \in WebSockets \ broken :
        /\ broken' = broken \cup {websocket}
        /\ UNCHANGED <<active_connections, connection_metadata, bc, snd, cm_frame>>

\* a send method up to its first await; for an unknown session it returns
Sending(session_id, await) ==
    IF session_id \in Keys(active_connections)
    THEN [ pc |-> await, session_id |-> session_id,
           websocket |-> GetItem(active_connections, session_id) ]
    ELSE NoSend

\* send_personal_message(message, session_id), up to await send_json
SendPersonalMessage ==
    /\ snd = NoSend
    /\ \E session_id \in SessionIds : snd' = Sending(session_id, "send_json")
    /\ UNCHANGED <<active_connections, connection_metadata, broken, bc, cm_frame>>

\* send_audio_chunk(audio_bytes, session_id, metadata), up to its first await
SendAudioChunk ==
    /\ snd = NoSend
    /\ \E session_id \in SessionIds, metadata \in BOOLEAN :
           snd' = Sending(session_id, IF metadata THEN "send_metadata" ELSE "send_bytes")
    /\ UNCHANGED <<active_connections, connection_metadata, broken, bc, cm_frame>>

\* the awaited send returns: the method goes on to its next send or returns
SendReturns ==
    /\ snd # NoSend
    /\ snd.websocket \notin broken
    /\ snd' = IF snd.pc = "send_metadata" THEN [snd EXCEPT !.pc = "send_bytes"]
              ELSE NoSend
    /\ UNCHANGED <<active_connections, connection_metadata, broken, bc, cm_frame>>

\* the awaited send raises: except Exception: self.disconnect(session_id)
SendRaises ==
    /\ snd # NoSend
    /\ snd.websocket \in broken
    /\ LET m == disconnect(active_connections, connection_metadata, snd.session_id)
       IN  /\ active_connections' = m.active_connections
           /\ connection_metadata' = m.connection_metadata
    /\ snd' = NoSend
    /\ UNCHANGED <<broken, bc, cm_frame>>

RECURSIVE CleanUp(_, _, _)
\* for session_id in disconnected: self.disconnect(session_id)
CleanUp(ac, md, disconnected) ==
    IF disconnected = <<>> THEN Manager(ac, md)
    ELSE LET m == disconnect(ac, md, Head(disconnected))
         IN  CleanUp(m.active_connections, m.connection_metadata, Tail(disconnected))

\* the sessions the cleanup takes out, with the websocket each had then
Removed(ac, disconnected) ==
    { <<disconnected[i], GetItem(ac, disconnected[i])>> :
        i \in {j \in 1..Len(disconnected) : disconnected[j] \in Keys(ac)} }

\* broadcast from the for statement asking its iterator for the next item,
\* up to the next await or to the end of the method. The iterator raises
\* RuntimeError when the dict has changed size, or has an entry left after
\* it handed out as many as the dict had.
Advance(b, ac, md) ==
    LET left == {i \in b.di_pos..Len(ac) : ac[i] # Dummy}
        m == CleanUp(ac, md, b.disconnected)
    IN  IF b.di_used # Cardinality(LiveEntries(ac))
        THEN [bc |-> [b EXCEPT !.pc = "raised"]] @@ Manager(ac, md)
        ELSE IF left = {}
        THEN [bc |-> [b EXCEPT !.pc = "done",
                               !.removed = Removed(ac, b.disconnected)]] @@ m
        ELSE IF b.len = 0
        THEN [bc |-> [b EXCEPT !.pc = "raised"]] @@ Manager(ac, md)
        ELSE [bc |-> [b EXCEPT !.pc = "send_json",
                               !.di_pos = Least(left) + 1,
                               !.len = @ - 1,
                               !.session_id = ac[Least(left)].key,
                               !.websocket = ac[Least(left)].value,
                               !.attempted = @ \cup {ac[Least(left)].key}]]
             @@ Manager(ac, md)

\* broadcast(message), up to its first await or, with nobody connected, to
\* its end
Broadcast ==
    /\ bc = NoBroadcast
    /\ LET n == Cardinality(LiveEntries(active_connections))
           next == Advance([NoBroadcast EXCEPT !.di_used = n, !.len = n,
                                               !.started = Keys(active_connections)],
                           active_connections, connection_metadata)
       IN  /\ bc' = next.bc
           /\ active_connections' = next.active_connections
           /\ connection_metadata' = next.connection_metadata
    /\ UNCHANGED <<broken, snd, cm_frame>>

\* broadcast resumes after await websocket.send_json(message), which
\* returned or raised
BroadcastResumes ==
    /\ bc.pc = "send_json"
    /\ LET b == IF bc.websocket \in broken
                THEN [bc EXCEPT !.disconnected = Append(@, bc.session_id)]
                ELSE bc
           next == Advance(b, active_connections, connection_metadata)
       IN  /\ bc' = next.bc
           /\ active_connections' = next.active_connections
           /\ connection_metadata' = next.connection_metadata
    /\ UNCHANGED <<broken, snd, cm_frame>>

\* the caller of broadcast has its result, or its exception
BroadcastOver ==
    /\ bc.pc \in {"done", "raised"}
    /\ bc' = NoBroadcast
    /\ UNCHANGED <<active_connections, connection_metadata, broken, snd, cm_frame>>

InitManager ==
    /\ PipelineIdle
    /\ RunnerIdle
    /\ ExtractorIdle
    /\ ToolIdle
    /\ WsIdle
    /\ GenIdle
    /\ CreatorIdle
    /\ ManagerIdle

NextManager ==
    \/ Connect
    \/ Disconnect
    \/ SocketBreaks
    \/ SendPersonalMessage
    \/ SendAudioChunk
    \/ SendReturns
    \/ SendRaises
    \/ Broadcast
    \/ BroadcastResumes
    \/ BroadcastOver

SpecManager == InitManager /\ [][NextManager]_vars

\* The calls awaited one after another, as a single caller makes them:
\* a call begins only when the one before has returned or raised.
NoCallRunning == bc = NoBroadcast /\ snd = NoSend

CallConnect == NoCallRunning /\ Connect

CallDisconnect == NoCallRunning /\ Disconnect

CallSendPersonalMessage == NoCallRunning /\ SendPersonalMessage

CallSendAudioChunk == NoCallRunning /\ SendAudioChunk

CallBroadcast == NoCallRunning /\ Broadcast

NextCalls ==
    \/ CallConnect
    \/ CallDisconnect
    \/ CallSendPersonalMessage
    \/ CallSendAudioChunk
    \/ CallBroadcast
    \/ SocketBreaks
    \/ SendReturns
    \/ SendRaises
    \/ BroadcastResumes
    \/ BroadcastOver

SpecCalls == InitManager /\ [][NextCalls]_vars

\* ------------------------------------------------------------------------
\* Properties of study_help
\* ------------------------------------------------------------------------

Returned == phase = "returned"

\* crew.kickoff() ran and returned a result
NormalPath == Returned /\ kickoffs = 1 /\ outcome.kind # "raise"

\* crew.kickoff() raised
GatewayRaised == Returned /\ kickoffs = 1 /\ outcome.kind = "raise"

\* the error message names no format problem, whatever its letter case
NamesFormatProblem(msg) ==
    \E i \in 1..Len(msg) : msg[i] \in {"parsing", "Parsing", "invalid format", "retry"}

IsPrefix(p, t) == Len(p) <= Len(t) /\ SubSeq(t, 1, Len(p)) = p

\* t occurs in u as a contiguous part
OccursIn(t, u) ==
    \E i \in 1..(Len(u) - Len(t) + 1) : SubSeq(u, i, i + Len(t) - 1) = t

\* a well-formed StudyHelpResponse: a success carries an answer and a
\* message list and no error, a failure carries an error
WellFormed(r) ==
    /\ r.success \in BOOLEAN
    /\ r.success => (r.answer # NoneVal /\ r.has_agent_responses /\ r.error = NoneVal)
    /\ ~r.success => (r.error # NoneVal /\ ~r.has_agent_responses
                      /\ r.whiteboard_data = NoWhiteboard)
    /\ ~r.has_agent_responses => r.agent_responses = <<>>

ExpectedAnswer(ar) ==
    LET experts == {i \in 1..Len(ar) : ContainsExpert(ar[i].agent)}
        first == CHOOSE i \in experts : \A j \in experts : i <= j
    IN  IF ar = <<>> THEN PlaceholderAnswer
        ELSE IF experts # {} THEN ar[first].message
        ELSE IF strip(ar[1].message) # <<>> THEN ar[1].message
        ELSE Longest(ar)

SameContent(out, ts) ==
    LET keys == [i \in 1..Len(ts) |-> [rel |-> "equal", desc |-> ts[i].description]]
    IN  { Outcome("dict", keys, out.items, NoneVal, "absent", <<>>, <<>>),
          Outcome("object", <<>>, out.items, NoneVal, "list", <<>>, <<>>),
          Outcome("object", keys, out.items, NoneVal, "dict", <<>>, <<>>) }
        \cup (IF Len(out.items) = 1
              THEN {Outcome("object", <<>>, <<>>, out.items[1], "absent", <<>>, <<>>)}
              ELSE {})

\* one text for each task, and no two tasks with the same prompt
OneTextPerTask ==
    /\ NormalPath
    /\ outcome.kind = "list"
    /\ outcome.task_outputs = <<>>
    /\ outcome.items # <<>>
    /\ Len(outcome.items) = Len(tasks)
    /\ \A i, j \in 1..Len(tasks) : i # j => tasks[i].description # tasks[j].description

FormatErrorRaised == GatewayRaised /\ NamesFormatProblem(outcome.msg)

\* the reasoning fragment after the marker, trimmed, or None
Fragment(msg) ==
    IF thought_match(msg) = NoneVal THEN NoneVal ELSE strip(thought_match(msg))

CleanedFragment(msg) == clean_thought(thought_match(msg))

RanPastTimeout == in_loop /\ worker # "none" /\ work > Timeout

\* the response of the recoverable-error path of study_help
RecoverablePathResult(r) ==
    \/ r.success
    \/ (r.answer = RephraseAnswer /\ r.error = FormatErrorLabel)

\* C8: when the study_help call run_agent hands to a worker exceeds the
\* 300-second bound, run_agent returns the response of the recoverable-error
\* path, not a hard failure with the raw timeout error.
C8_TimeoutIsRecoverable ==
    (runner_pc = "returned" /\ RanPastTimeout) => RecoverablePathResult(run_result)

\* C9: the caller of run_agent inside a running loop is released when the
\* worker completes or when the 300-second timeout elapses, whichever comes
\* first: it is never still blocked after the timeout.
C9_CallerReleasedAtTimeout ==
    runner_pc \in {"waiting", "shutdown"} => now <= Timeout

\* availableRoles is supplied and empty
EmptyRoster ==
    request.available_agent_roles.given /\ request.available_agent_roles.roles = {}

\* C10: with an empty eligible roster no task is composed in either mode,
\* the response is a no-responder result that is no error, and
\* crew.kickoff() is never called.
C10_EmptyRosterNoKickoff ==
    (Returned /\ EmptyRoster) =>
        /\ tasks = <<>>
        /\ kickoffs = 0
        /\ response.error = NoneVal

\* ------------------------------------------------------------------------
\* Properties of the Task Flow Composer
\* ------------------------------------------------------------------------

\* the agents of the composed tasks, in order
TaskAgents == [i \in 1..Len(tasks) |-> tasks[i].agent]

\* the roster of the request's subject, cut down to the available roles
\* when these are supplied
EligibleRoster ==
    IF request.available_agent_roles.given
    THEN SelectSeq(RosterOf(request.subject),
                   LAMBDA r : r \in request.available_agent_roles.roles)
    ELSE RosterOf(request.subject)

\* the roster role the preferred role resolves to, NoAgent if none
ResolvedPreferred ==
    LET role == actual_agent_role(request.preferred_agent_role)
    IN  IF Truthy(role) THEN find_agent_by_role(EligibleRoster, role) ELSE NoAgent

\* C11: when available roles are supplied (and are not empty), every
\* composed task belongs to one of them, and a discussion has exactly one
\* task per eligible role: two tasks for a roster restricted to two roles.
C11_RestrictionHonoured ==
    ( /\ Returned
      /\ request.available_agent_roles.given
      /\ request.available_agent_roles.roles # {} ) =>
        /\ \A i \in 1..Len(tasks) :
               tasks[i].agent \in request.available_agent_roles.roles
        /\ request.help_type = "discussion" => Len(tasks) = Len(EligibleRoster)
        /\ request.help_type = "explanation" => Len(tasks) = 1

\* the order the discussion is to have: the resolved preferred role, then
\* the other roster roles in the order of the roster
CanonicalOrder ==
    IF ResolvedPreferred # NoAgent
    THEN <<ResolvedPreferred>>
         \o SelectSeq(EligibleRoster, LAMBDA r : r # ResolvedPreferred)
    ELSE EligibleRoster

\* C12: a discussion has one task per roster role, none twice: the
\* preferred role first when it resolves to a roster role, then the others
\* in the order Socratic Mentor, Problem Analyst, Critical Thinker, Peer
\* Student, Interdisciplinary Connector.
C12_DiscussionOrder ==
    (Returned /\ request.help_type = "discussion") =>
        TaskAgents = CanonicalOrder

\* the agent the single task of an explanation is to go to
SingleTarget ==
    LET expert == create_subject_expert_agent(request.subject)
    IN  IF ResolvedPreferred # NoAgent THEN ResolvedPreferred
        ELSE IF \E i \in 1..Len(EligibleRoster) : EligibleRoster[i] = expert
        THEN expert
        ELSE EligibleRoster[1]

\* C13: an explanation has exactly one task: for the resolved preferred
\* role if the roster has it, else for the Problem Analyst if present, else
\* for the first role of the roster.
C13_SingleTask ==
    (Returned /\ request.help_type = "explanation" /\ EligibleRoster # <<>>) =>
        TaskAgents = <<SingleTarget>>

\* ------------------------------------------------------------------------
\* Properties of the Whiteboard Payload Extractor
\* ------------------------------------------------------------------------

\* the result is a text made of prose and one flat object with "type"
ProseWithPayload ==
    /\ NormalPath
    /\ outcome.kind = "str"
    /\ outcome.raw = <<"a", "J">>

Qualifies(candidate) ==
    Len(strip(candidate)) = 1 /\ HasPayloadKey(strip(candidate)[1])

\* the candidates of the four strategies, in the order of the strategies:
\* the whole text, the json-tagged fences, the untagged fences, the
\* balanced-brace substrings
Candidates(t) ==
    <<t>> \o FenceMatches(t, "FJ", 1) \o FenceMatches(t, "F", 1)
          \o [i \in 1..Len(SelectSeq(t, LAMBDA c : c \in ObjectTokens)) |->
                 <<SelectSeq(t, LAMBDA c : c \in ObjectTokens)[i]>>]

\* the first candidate that qualifies, None if none does
FirstQualifying(t) ==
    LET good == {i \in 1..Len(Candidates(t)) : Qualifies(Candidates(t)[i])}
    IN  IF good = {} THEN "<None>"
        ELSE strip(Candidates(t)[CHOOSE i \in good : \A j \in good : i <= j])[1]

\* C20: the extractor returns the first candidate, in the order whole text,
\* json-tagged fence, untagged fence, balanced-brace substring, that parses
\* to an object with one of type, render_engine, specifications,
\* instructions; it returns None only if no candidate qualifies.
C20_FirstQualifyingCandidate ==
    extractor_pc = "returned" => extracted = FirstQualifying(scan_text)

\* ------------------------------------------------------------------------
\* Properties of the endpoint, from its tests
\* ------------------------------------------------------------------------

\* an explanation whose crew was created and whose engine returned a map
\* from the task's description to a text that is not empty
DescriptionMapped ==
    /\ NormalPath
    /\ request.help_type = "explanation"
    /\ outcome.kind = "dict"
    /\ Len(outcome.keys) = 1
    /\ outcome.keys[1] = [rel |-> "equal", desc |-> tasks[1].description]
    /\ outcome.items[1] # <<>>

C19_PayloadWellFormed ==
    tool_output.returned =>
        /\ {"type", "specifications", "instructions"} \subseteq DOMAIN tool_output.spec
        /\ tool_output.spec.specifications
        /\ tool_output.spec.instructions
        /\ tool_output.spec.render_engine \in {"whiteboard", "desmos"}
        /\ tool_output.spec.render_engine = "desmos" =>
               tool_output.spec.expression # NoneStr

\* the flexible tool has turned a plain expression into a Desmos payload
C19_Witness ==
    /\ tool_output.returned
    /\ tool_call.tool = "generate_whiteboard_visual_flex"
    /\ tool_call.payload = Plain("t")
    /\ tool_output.spec.render_engine = "desmos"
    /\ tool_output.spec.expression = "t"

\* ------------------------------------------------------------------------
\* Properties of /ws/audio
\* ------------------------------------------------------------------------

\* the places of the received messages in the log
InIdx == {i \in 1..Len(ws_log) : ws_log[i].dir = "in"}

\* the last message received
LastIn(i) == \A j \in InIdx : j <= i

\* what was sent between the i-th entry of the log, a received message, and
\* the next received message
ReplyTo(i) ==
    LET later == {j \in InIdx : j > i}
        stop == IF later = {} THEN Len(ws_log) + 1
                ELSE CHOOSE j \in later : \A k \in later : j <= k
    IN  SubSeq(ws_log, i + 1, stop - 1)

\* a config message was answered before the i-th entry
ConfiguredBefore(i) == \E j \in 1..(i - 1) : ws_log[j] = Out("config_received")

\* the full answer to a text whose TTS stream yields n chunks
FullReply(n) ==
    <<Out("text_received"), Out("response_text"), Out("audio_start")>>
    \o [k \in 1..n |-> Chunk(k)] \o <<Out("audio_end")>>

\* the answer to the i-th entry is a full answer; while the audio of the
\* last text is still being streamed, the beginning of one
FullyAnswered(i) ==
    IF ws_pc = "streaming" /\ LastIn(i)
    THEN IsPrefix(ReplyTo(i), FullReply(ws_stream.total))
    ELSE \E n \in 0..MaxChunks : ReplyTo(i) = FullReply(n)

\* the messages of the log that matter: configs, and texts after a config
Configs == {i \in InIdx : ws_log[i].type = "config"}
ConfiguredTexts == {i \in InIdx : ws_log[i].type = "text" /\ ConfiguredBefore(i)}

\* C17 as stated: connected comes first, each config is answered by
\* config_received, and while the client stays connected each text after a
\* config is answered by exactly text_received, response_text, audio_start,
\* the chunks in the order of the stream, audio_end.
C17_FullReplyToEveryText ==
    /\ ws_log # <<>> => Head(ws_log) = Out("connected")
    /\ \A i \in Configs : ReplyTo(i) = <<Out("config_received")>>
    /\ ws_connected => \A i \in ConfiguredTexts : FullyAnswered(i)

\* the handler has ended on an exception: the answer to the last message
\* received ends with the error message, and the client is still there
EndedByError(i) ==
    /\ ws_pc = "closed"
    /\ ws_connected
    /\ LastIn(i)

\* C17, amended: connected comes first; a config is answered by
\* config_received, a text after a config by the full sequence with the
\* chunks in order, so that every audio_start is followed by audio_end;
\* unless building or running the agent raises: then the answer is cut
\* short by one error message, the last message the handler sends.
C17_FullReplyOrError ==
    /\ ws_log # <<>> => Head(ws_log) = Out("connected")
    /\ \A i \in Configs :
          \/ ReplyTo(i) = <<Out("config_received")>>
          \/ EndedByError(i) /\ ReplyTo(i) = <<Out("error")>>
    /\ ws_connected =>
          \A i \in ConfiguredTexts :
              \/ FullyAnswered(i)
              \/ EndedByError(i)
                 /\ ReplyTo(i) = <<Out("text_received"), Out("error")>>

\* a text after a config has been answered in full, two chunks included, and
\* the handler is back at receiving
C17_Witness ==
    /\ ws_pc = "receiving"
    /\ ws_connected
    /\ \E i \in ConfiguredTexts : ReplyTo(i) = FullReply(MaxChunks)

\* ------------------------------------------------------------------------
\* Properties of run_agent
\* ------------------------------------------------------------------------

\* C18: run_agent returns None only if the mode is invalid: in the modes
\* direct and http it returns a dict with a response entry (and a
\* json_path), on failure paths too.
C18_NoneOnlyForInvalidMode ==
    (runner_pc = "returned" /\ mode \in {"direct", "http"}) =>
        run_result # NoneReturned

\* ------------------------------------------------------------------------
\* Properties of generate_response
\* ------------------------------------------------------------------------

\* "An error has occurred.": the text of the except branch of
\* generate_response, which nothing run_agent returns makes it take
ErrorOccurredText == <<"An error has occurred.">>

\* the fixed apology and placeholder texts
FixedTexts ==
    {NoUsersText, NoAgentsText, ProcessingText, ErrorOccurredText, RephraseAnswer}

\* the answer and the agent messages of the result run_agent handed over
DeliveredAnswers ==
    IF runner_pc = "returned" /\ run_result # NoneReturned
    THEN ({run_result.answer}
          \cup {run_result.agent_responses[i].message :
                    i \in DOMAIN run_result.agent_responses}) \ {NoneVal}
    ELSE {}

\* C15: failure text never reaches the user: the answer of a failed
\* study_help is None or the fixed apology, and the response_text
\* generate_response builds from a study-help run is an answer or agent
\* message of that run or one of the fixed texts, never another field of the
\* result (error detail, traceback, topic, ...).
C15_NoFailureTextDelivered ==
    /\ (phase = "returned" /\ ~response.success) =>
            response.answer \in {NoneVal, RephraseAnswer}
    /\ (gen_pc = "returned" /\ runner_pc = "returned" /\ gen_result.kind = "dict") =>
            gen_result.response_text \in FixedTexts \cup DeliveredAnswers

\* ------------------------------------------------------------------------
\* Properties of the whiteboard scan of study_help
\* ------------------------------------------------------------------------

RECURSIVE TaskSurfaces(_, _, _)
\* the first loop of the dict branch: the output of each task, then the
\* outputs of its intermediate steps
TaskSurfaces(outs, steps, i) ==
    IF i > Len(outs) THEN <<>>
    ELSE (IF outs[i] = NoneVal THEN <<>> ELSE <<strip(outs[i])>>)
         \o steps[i] \o TaskSurfaces(outs, steps, i + 1)

\* the texts the branch of the result's shape scans, in the order it scans
ShapeSurfaces ==
    CASE outcome.kind = "dict" ->
           TaskSurfaces(TaskOutputs(outcome, tasks), IntermediateSteps(outcome, tasks), 1)
           \o [i \in 1..Len(outcome.items) |-> strip(outcome.items[i])]
      [] outcome.kind = "list" -> outcome.items
      [] outcome.kind = "object" /\ outcome.tasks_output # "absent" -> outcome.items
      [] OTHER -> <<>>

\* every text surface of the request in scan order: the shape's, then the
\* collected messages, then the main answer
ScanOrder ==
    ShapeSurfaces
    \o [i \in 1..Len(response.agent_responses) |-> response.agent_responses[i].message]
    \o <<response.answer>>

\* the payload of the first surface that holds one, or None
FirstPayload(surfaces) ==
    LET found == SelectSeq(surfaces,
                           LAMBDA t : extract_whiteboard_tool_output(t) # "<None>")
    IN  IF found = <<>> THEN "<None>" ELSE extract_whiteboard_tool_output(found[1])

BeforeStrStep ==
    TaskOutputStep(RawStep(ShapeBranch(outcome, tasks), outcome, tasks), outcome, tasks)

\* the entries of agent_responses added from the string fallback on
AddedFromStrStep ==
    SubSeq(response.agent_responses, Len(BeforeStrStep.ar) + 1,
           Len(response.agent_responses))

\* those of them that hold the stringified whole result
Stringified ==
    SelectSeq(AddedFromStrStep,
              LAMBDA m : m.message \in {Str(outcome), strip(Str(outcome))})

WhiteboardRole(call) == create_professor_agent(call.subject)

\* C25: a created task has the whiteboard tools only if it is the task of
\* the Socratic Mentor of its roster and visuals were judged useful; no task
\* of another role of the roster ever has them
C25_ToolsOnlyForTheMentor ==
    (created_task.returned /\ created_task.task.tools) =>
        /\ created_task.task.agent = WhiteboardRole(creator_call)
        /\ include_visuals(creator_call)

\* ------------------------------------------------------------------------
\* Properties of the alias resolution
\* ------------------------------------------------------------------------

\* the preferred role is a key of agent_role_map, case-insensitively
IsAlias(role) == Truthy(role) /\ Lower(role) \in DOMAIN agent_role_map

\* the tasks of a request were composed
Composed == phase = "returned" /\ tasks # <<>>

MapShaped ==
    /\ NormalPath
    /\ response.success
    /\ \/ outcome.kind = "dict"
       \/ outcome.kind = "object" /\ outcome.tasks_output = "dict"

\* the key equals the task's description, is a part of it, or contains it
MatchesEitherWay(key, task) ==
    key.desc = task.description /\ key.rel \in {"equal", "part", "whole"}

\* the role an entry is to be reported under: that of the first task its
\* key matches, or none when it matches no task
EntryRole(key) ==
    LET hits == {i \in 1..Len(tasks) : MatchesEitherWay(key, tasks[i])}
    IN  IF hits = {} THEN NoAgent ELSE tasks[Least(hits)].agent

\* the labels used when no task is found
FallbackRoles == {"Assistant", "Expert"}

\* str(output) of entry i, as the branch reports it
EntryText(i) ==
    IF outcome.kind = "dict" THEN strip(outcome.items[i]) ELSE outcome.items[i]

C28_BroadcastUnderInterleaving ==
    /\ bc.pc # "raised"
    /\ bc.pc = "done" =>
          /\ \A s \in bc.started :
                 s \in Keys(active_connections) => s \in bc.attempted
          /\ {r[1] : r \in bc.removed} =
                 {bc.disconnected[i] : i \in 1..Len(bc.disconnected)}
          /\ \A r \in bc.removed : r[2] \in broken

\* the session ids registered in either dict
Registered(ac, md) == Keys(ac) \cup Keys(md)

\* the two dicts hold the same session ids
SameSessionIds == Keys(active_connections) = Keys(connection_metadata)

\* disconnect of a session id that is not registered returns the manager
\* as it was
DisconnectUnknownIsNoOp ==
    \A session_id \in SessionIds \ Keys(active_connections) :
        disconnect(active_connections, connection_metadata, session_id)
            = Manager(active_connections, connection_metadata)

\* a send method ends on a raising websocket: its session is registered
\* nowhere afterwards
FailedSendRemoved ==
    (snd # NoSend /\ snd.websocket \in broken /\ snd' = NoSend) =>
        snd.session_id \notin Registered(active_connections', connection_metadata')

\* broadcast ends: the sessions whose send raised are registered nowhere
\* afterwards
FailedBroadcastRemoved ==
    (bc.pc = "send_json" /\ bc'.pc \in {"done", "raised"}) =>
        \A i \in 1..Len(bc'.disconnected) :
            bc'.disconnected[i]
                \notin Registered(active_connections', connection_metadata')

\* C29: whatever calls were made one after another, the two dicts hold the
\* same session ids, a session whose send failed is in neither when the
\* call ends, and disconnect of an unknown session id changes nothing
C29_SameSessionIds ==
    /\ [](SameSessionIds /\ DisconnectUnknownIsNoOp)
    /\ [][FailedSendRemoved /\ FailedBroadcastRemoved]_vars

\* C29 witness: a broadcast has ended after a send of it raised, and another
\* session is still registered
C29_Witness ==
    /\ bc.pc = "done"
    /\ bc.disconnected # <<>>
    /\ Keys(active_connections) # {}
    /\ Keys(connection_metadata) = Keys(active_connections)

\* ------------------------------------------------------------------------
\* Properties of /ws/audio before the configuration
\* ------------------------------------------------------------------------

\* entry i of the log is the message of that direction and type
IsMessage(i, dir, type) ==
    i \in 1..Len(ws_log) /\ ws_log[i].dir = dir /\ ws_log[i].type = type

\* the texts received while no agent was configured
UnconfiguredTexts ==
    {i \in 1..Len(ws_log) : IsMessage(i, "in", "text") /\ ~ConfiguredBefore(i)}

\* C30: a text received before any config is answered by one error message
\* and nothing else, the handler stays at receive_text while the client is
\* connected, and a text received after a later config is acknowledged
C30_TextBeforeConfigRefused ==
    \A i \in UnconfiguredTexts :
        /\ IsMessage(i + 1, "out", "error")
        /\ i + 2 <= Len(ws_log) => ws_log[i + 2].dir = "in"
        /\ i + 1 = Len(ws_log) => (ws_pc = "receiving" \/ ~ws_connected)
        /\ \A k \in (i + 1)..Len(ws_log) :
              (IsMessage(k, "in", "text") /\ ConfiguredBefore(k)) =>
                  IsMessage(k + 1, "out", "text_received")

\* C30 witness: a text is refused, the agent is configured, and the next
\* text is answered through to the end of its audio
C30_Witness ==
    /\ Len(ws_log) >= 9
    /\ SubSeq(ws_log, 1, 8) =
          << Out("connected"), In("text"), Out("error"),
             In("config"), Out("config_received"),
             In("text"), Out("text_received"), Out("response_text") >>
    /\ ws_log[Len(ws_log)] = Out("audio_end")
    /\ ws_pc = "receiving"

====
